---- MODULE Spec2Model ----
(***************************************************************************)
(* A model of the Reduino transpiler (src/Reduino/transpile).              *)
(*                                                                         *)
(* The module holds several state machines over disjoint variables:        *)
(*   SpecLed   the C++ the emitter generates for the LED actions, run on   *)
(*             the target (emitter.py, _emit_block);                       *)
(*   SpecList  the generated list helper (__redu_list, emitter.py) driven  *)
(*             by the statements the parser emits for list assignments;    *)
(*   SpecFn    the parser's function specialisation tables                 *)
(*             (_parse_function, _ensure_function_variant, parse);         *)
(*   SpecParse the statement parser: assignments, control constructs and   *)
(*             declaration promotion (_parse_simple_lines and helpers);    *)
(*   SpecText  the line recognisers of parse and _parse_simple_lines run   *)
(*             on source text: which recogniser takes each line, block     *)
(*             collection, break and return;                               *)
(*   SpecResolve the nested re-parses of _ensure_function_variant and     *)
(*             _parse_function, one step at a time;                        *)
(*   SpecTarget parse() on texts with target(...) directives (parser.py);  *)
(*   SpecEmit  emit() on Programs with LED declarations (emitter.py);      *)
(*   SpecFold  constant folding against the translated expression          *)
(*             (parser.py, _eval_const and _to_c_expr);                    *)
(*   SpecVariant function specializations parsed at different call sites   *)
(*             (parser.py, _parse_function and _ensure_function_variant);  *)
(*   SpecInfer type inference of binary expressions (parser.py,            *)
(*             _infer_expr_type);                                          *)
(*   SpecBranch the branches of an if statement around a tracked list      *)
(*             (parser.py, _parse_simple_lines and                         *)
(*             _handle_assignment_ast);                                    *)
(*   SpecSonar the generated ultrasonic measurement helper (emitter.py,    *)
(*             emit).                                                      *)
(***************************************************************************)
EXTENDS Integers, Sequences, FiniteSets, TLC

VARIABLES
    \* ---- SpecLed: generated LED runtime state (emitter.py) ----
    led_state,        \* bool __state_<name>
    led_brightness,   \* int  __brightness_<name>
    led_pc,           \* which generated block is executing ("idle" between actions)
    redu_value,       \* int __redu_value   (fade / flash_pattern local)
    redu_step,        \* int __redu_step    (fade local)
    redu_i,           \* loop counter __redu_i (blink / flash_pattern)
    redu_times,       \* int __redu_times   (blink local)
    redu_pattern,     \* const int __redu_pattern[] (flash_pattern local)
    led_arg,          \* the argument of the last set_brightness
    led_last,         \* the LED action whose generated block completed last
    \* ---- SpecList: generated list runtime (emitter.py) + parser bookkeeping ----
    heap_live,        \* addresses of the arrays obtained from new[] and not yet deleted
    heap_data,        \* contents of the array at each address
    heap_fault,       \* undefined behaviour was executed: a read through, or a
                      \* delete[] of, a pointer to an array that is not live
    lists,            \* the __redu_list<int> struct of each variable: data, size
    list_declared,    \* parser: names in `declared`
    list_info,        \* parser: list_info[name]["length"]
    list_model,       \* the value each list has when lists are independent values
    list_src,         \* the list a name was last assigned from ("none": a literal)
    list_last,        \* the last statement executed: <<operation, name>>
    list_reassign,    \* the last reassignment of a declared list from a literal
    \* ---- SpecFn: the parser's function tables (parser.py) ----
    fn_tables,        \* the function entries of the parse context
    fn_src,           \* the top-level lines of the source read so far
    fn_selected,      \* Program.functions: <<name, signature>> of each definition
    fn_done,          \* parse() has returned
    \* ---- SpecParse: the statement parser (parser.py) ----
    parse_stack,      \* the parse contexts of the blocks that are open, outermost first
    parse_globals,    \* ctx["globals"]: the global VarDecl list (shared by all contexts)
    parse_pinfo,      \* the _promotion_cpp_types dicts that exist (contexts share them)
    parse_loop,       \* loop_body of parse()
    parse_src,        \* the source lines read so far
    parse_done,       \* parse() has returned
    parse_last,       \* what the last closed construct promoted
    parse_folds,      \* the len(name) calls replaced by a literal so far
    parse_run1,       \* names of the hoisted declarations, in the order emitted
    parse_run2,       \* the same for a second translation of the same source
    parse_reads_ok,   \* every name read so far was assigned on an earlier line (len: a str)
    \* ---- SpecText: lines, blocks and the line recognisers (parser.py) ----
    \* ---- SpecResolve: resolution of function variants, step by step ----
    res_src,          \* function_sources: the body of each defined function
    res_stack,        \* the _parse_function calls in progress, innermost last
    res_refreshing,   \* _refreshing_functions
    res_defs,         \* function_defs: the cached <<name, signature>> pairs
    res_calls,        \* function_call_signatures
    res_short,        \* a request for a pair in progress was short-circuited
    res_status,       \* "idle", "running" or "RecursionError"
    res_lines,        \* the top-level lines read so far
    \* ---- SpecSonar: the generated __redu_ultrasonic_measure_<name>() ----
    sonar_last_trigger_ms, \* static unsigned long __redu_last_trigger_ms
    sonar_last_distance,   \* static float __redu_last_distance
    sonar_has_distance,    \* static bool __redu_has_distance
    sonar_attempt,         \* unsigned int __redu_attempt
    sonar_pc,              \* "idle" outside a call, "attempt" inside the loop
    sonar_clock,           \* millis()
    sonar_result,          \* the value the last call returned
    sonar_echoes,          \* the echo durations read during the current call
    sonar_calls,           \* calls so far
    sonar_good,            \* the distance of the most recent positive echo
    \* ---- SpecTarget: parse() on texts with target(...) directives ----
    target_src,       \* the lines of the source text
    target_parsed,    \* parse() has run
    target_result,    \* the Program it returned, or the error
    \* ---- SpecEmit: emit() on Programs with LED declarations ----
    emit_setup_body,  \* Program.setup_body
    emit_loop_body,   \* Program.loop_body
    emit_setup_lines, \* the lines of the generated setup()
    emit_done,        \* emit() has run
    \* ---- SpecFold: constant folding of name-free expressions ----
    fold_expr,        \* the expression: a literal, then the operators applied
    fold_sleep,       \* the Sleep node built from Sleep(<fold_expr>)
    \* ---- SpecVariant: function specializations and the call site ----
    variant_src,      \* the top-level lines parsed so far
    variant_declared, \* ctx["var_declared"] of the top-level context
    variant_defined,  \* ctx["function_sources"] holds f
    variant_defs,     \* ctx["function_defs"]["f"], by requested type
    variant_pending,  \* ctx["function_call_signatures"]["f"]
    \* ---- SpecInfer: _infer_expr_type on binary expressions ----
    infer_types,      \* var_types of the scope
    infer_before,     \* var_types before the last inference
    infer_expr,       \* the expression of the last inference
    infer_label,      \* the type it returned
    infer_count,      \* inferences so far
    \* ---- SpecBranch: the branches of an if statement and list tracking ----
    branch_src,       \* the lines parsed after `a = [1]` and `x = 1`
    branch_kind,      \* the block being parsed: "top", "if", "elif", "else"
    branch_stmts,     \* statements parsed in that block
    branch_objects,   \* length of each Python list object, 0 when unused
    branch_list_info, \* ctx["list_info"]["a"]["length"]
    branch_vars,      \* ctx["vars"] of the context being parsed in
    branch_base,      \* base_ctx_vars: the enclosing vars at the if header
    branch_header,    \* what the enclosing context held at the if header
    branch_own,       \* the header's values changed by this block's lines only
    branch_err,       \* the parser raised an error
    branch_folds,     \* the literals len(a) was folded to
    text_src,         \* the lines of the source text
    text_alt,         \* the same text with one comment line added
    text_phase,       \* "edit" while the text is written, then "alt", then "done"
    text_result,      \* what parse(text_src) gives
    text_alt_result   \* what parse(text_alt) gives

ledVars == <<led_state, led_brightness, led_pc, redu_value, redu_step,
             redu_i, redu_times, redu_pattern, led_last, led_arg>>

listVars == <<heap_live, heap_data, heap_fault, lists, list_declared,
              list_info, list_model, list_src, list_last, list_reassign>>

fnVars == <<fn_tables, fn_src, fn_selected, fn_done>>

parseVars == <<parse_stack, parse_globals, parse_pinfo, parse_loop, parse_src,
               parse_done, parse_last, parse_folds, parse_run1, parse_run2,
               parse_reads_ok>>

textVars == <<text_src, text_alt, text_phase, text_result, text_alt_result>>

resolveVars == <<res_src, res_stack, res_refreshing, res_defs, res_calls, res_short,
                 res_status, res_lines>>
sonarVars == <<sonar_last_trigger_ms, sonar_last_distance, sonar_has_distance,
               sonar_attempt, sonar_pc, sonar_clock, sonar_result, sonar_echoes,
               sonar_calls, sonar_good>>
targetVars == <<target_src, target_parsed, target_result>>
branchVars == <<branch_src, branch_kind, branch_stmts, branch_objects, branch_list_info,
                branch_vars, branch_base, branch_header, branch_own, branch_err, branch_folds>>
inferVars == <<infer_types, infer_before, infer_expr, infer_label, infer_count>>
variantVars == <<variant_src, variant_declared, variant_defined, variant_defs, variant_pending>>
foldVars == <<fold_expr, fold_sleep>>
emitVars == <<emit_setup_body, emit_loop_body, emit_setup_lines, emit_done>>
vars == <<ledVars, listVars, fnVars, parseVars, textVars, resolveVars, sonarVars, targetVars,
          emitVars, foldVars, variantVars, inferVars, branchVars>>

\* What the LED state machine leaves alone.
LedOthers == <<listVars, fnVars, parseVars, textVars, resolveVars, sonarVars, targetVars, emitVars, foldVars, variantVars, inferVars, branchVars>>
\* What the list state machine leaves alone.
ListOthers == <<ledVars, fnVars, parseVars, textVars, resolveVars, sonarVars, targetVars, emitVars, foldVars, variantVars, inferVars, branchVars>>
\* What the function tables' state machine leaves alone.
FnOthers == <<ledVars, listVars, parseVars, textVars, resolveVars, sonarVars, targetVars, emitVars, foldVars, variantVars, inferVars, branchVars>>
\* What the statement parser's state machine leaves alone.
ParseOthers == <<ledVars, listVars, fnVars, textVars, resolveVars, sonarVars, targetVars, emitVars, foldVars, variantVars, inferVars, branchVars>>
\* What the text-level parser's state machine leaves alone.
ResolveOthers == <<ledVars, listVars, fnVars, parseVars, textVars, sonarVars, targetVars, emitVars, foldVars, variantVars, inferVars, branchVars>>
BranchOthers == <<ledVars, listVars, fnVars, parseVars, textVars, resolveVars, sonarVars,
                 targetVars, emitVars, foldVars, variantVars, inferVars>>
InferOthers == <<ledVars, listVars, fnVars, parseVars, textVars, resolveVars, sonarVars,
                targetVars, emitVars, foldVars, variantVars, branchVars>>
VariantOthers == <<ledVars, listVars, fnVars, parseVars, textVars, resolveVars, sonarVars,
                  targetVars, emitVars, foldVars, inferVars, branchVars>>
FoldOthers == <<ledVars, listVars, fnVars, parseVars, textVars, resolveVars, sonarVars, targetVars,
               emitVars, variantVars, inferVars, branchVars>>
EmitOthers == <<ledVars, listVars, fnVars, parseVars, textVars, resolveVars, sonarVars, targetVars, foldVars, variantVars, inferVars, branchVars>>
TargetOthers == <<ledVars, listVars, fnVars, parseVars, textVars, resolveVars, sonarVars, emitVars, foldVars, variantVars, inferVars, branchVars>>
SonarOthers == <<ledVars, listVars, fnVars, parseVars, textVars, resolveVars, targetVars, emitVars, foldVars, variantVars, inferVars, branchVars>>
TextOthers == <<ledVars, listVars, fnVars, parseVars, resolveVars, sonarVars, targetVars, emitVars, foldVars, variantVars, inferVars, branchVars>>

(***************************************************************************)
(* SpecLed                                                                 *)
(***************************************************************************)

\* 8-bit PWM ceiling used by every LED clamp (emitter.py: "> 255").
MaxBrightness == 255

\* int is 16 bits wide on the default AVR boards (uno, nano).
IntBits == 16

IntMod == 2 ^ IntBits
IntMax == (2 ^ (IntBits - 1)) - 1
IntMin == 0 - (2 ^ (IntBits - 1))

\* Two's-complement wrap of an int result.
WrapInt(x) ==
    LET m == x % IntMod
    IN  IF m > IntMax THEN m - IntMod ELSE m

\* An integer literal outside the range of int initialises an int variable:
\* the conversion keeps the low IntBits bits (avr-gcc).
NarrowInt(v) == WrapInt(v)

\* Values an int arithmetic result may take.  Signed overflow is undefined:
\* the build either wraps (plain AVR add/sub) or keeps reasoning as if the
\* exact result had been representable (saturated here to the nearest bound).
IntResults(x) ==
    IF x > IntMax THEN {WrapInt(x), IntMax}
    ELSE IF x < IntMin THEN {WrapInt(x), IntMin}
    ELSE {x}

\* Arguments the source program may pass (literals folded by the parser or
\* runtime values): chosen to hit below, inside and above every clamp.
BrightnessInputs == {0 - 5, 0, 1, 128, 255, 500, 65636}
StepInputs       == {0 - 1, 0, 1, 5, 100, IntMax}
TimesInputs      == {0 - 1, 0, 1, 2}
PatternInputs    == { <<0>>, <<1>>, <<1, 0>>, <<0 - 3, 7>>, <<300, 1>>, <<2, 255, 0>> }

\* if (x < 0) { x = 0; }
ClampLow(x) == IF x < 0 THEN 0 ELSE x
\* if (x > 255) { x = 255; }
ClampHigh(x) == IF x > MaxBrightness THEN MaxBrightness ELSE x

\* {state_var} = {brightness_var} > 0;
StateFromBrightness(b) == b > 0

\* LedToggle, second statement:  brightness = state ? 255 : 0   (state already flipped)
ToggleBrightnessStale(newState, oldBrightness) == oldBrightness
ToggleBrightness(newState, oldBrightness) ==
    IF newState THEN MaxBrightness ELSE 0

\* if (__redu_step <= 0) { __redu_step = 1; }
FadeStep(s) == IF s <= 0 THEN 1 ELSE s

LedLocalsUnchanged ==
    UNCHANGED <<redu_value, redu_step, redu_i, redu_times, redu_pattern, led_arg, LedOthers>>

LedOn ==
    /\ led_pc = "idle"
    /\ led_last' = "on"
    /\ led_state' = TRUE
    /\ led_brightness' = MaxBrightness
    /\ UNCHANGED led_pc
    /\ LedLocalsUnchanged

LedOff ==
    /\ led_pc = "idle"
    /\ led_last' = "off"
    /\ led_state' = FALSE
    /\ led_brightness' = 0
    /\ UNCHANGED led_pc
    /\ LedLocalsUnchanged

LedToggle ==
    /\ led_pc = "idle"
    /\ led_last' = "toggle"
    /\ led_state' = ~led_state
    /\ led_brightness' = ToggleBrightness(~led_state, led_brightness)
    /\ UNCHANGED led_pc
    /\ LedLocalsUnchanged

\* int __redu_brightness = <v>;  then the two clamps.
LedSetBrightness(v) ==
    /\ led_pc = "idle"
    /\ led_last' = "set_brightness"
    /\ led_arg' = v
    /\ LET b == ClampHigh(ClampLow(NarrowInt(v)))
       IN  /\ led_brightness' = b
           /\ led_state' = StateFromBrightness(b)
    /\ UNCHANGED led_pc
    /\ UNCHANGED <<redu_value, redu_step, redu_i, redu_times, redu_pattern, LedOthers>>

\* LedBlink: the block header, then one loop iteration per step, then the tail.
LedBlinkStart(t) ==
    /\ UNCHANGED led_last
    /\ led_pc = "idle"
    /\ redu_times' = ClampLow(t)
    /\ redu_i' = 0
    /\ led_pc' = "blink"
    /\ UNCHANGED <<led_state, led_brightness, redu_value, redu_step, redu_pattern, led_arg, LedOthers>>

LedBlinkIter ==
    /\ UNCHANGED led_last
    /\ led_pc = "blink"
    /\ redu_i < redu_times
    \* on (state = true; brightness = 255; delay), then off (state = false; brightness = 0; delay)
    /\ led_state' = FALSE
    /\ led_brightness' = 0
    /\ redu_i' = redu_i + 1
    /\ UNCHANGED <<led_pc, redu_value, redu_step, redu_times, redu_pattern, led_arg, LedOthers>>

LedBlinkEnd ==
    /\ led_last' = "blink"
    /\ led_pc = "blink"
    /\ ~(redu_i < redu_times)
    /\ led_state' = FALSE
    /\ led_brightness' = 0
    /\ led_pc' = "idle"
    /\ redu_i' = 0
    /\ redu_times' = 0
    /\ UNCHANGED <<redu_value, redu_step, redu_pattern, led_arg, LedOthers>>

LedFadeInStart(s) ==
    /\ UNCHANGED led_last
    /\ led_pc = "idle"
    /\ redu_step' = FadeStep(s)
    /\ redu_value' = ClampHigh(ClampLow(led_brightness))
    /\ led_pc' = "fade_in"
    /\ UNCHANGED <<led_state, led_brightness, redu_i, redu_times, redu_pattern, led_arg, LedOthers>>

LedFadeInIter ==
    /\ UNCHANGED led_last
    /\ led_pc = "fade_in"
    /\ redu_value < MaxBrightness
    /\ led_brightness' = redu_value
    /\ led_state' = StateFromBrightness(redu_value)
    /\ \E r \in IntResults(redu_value + redu_step) : redu_value' = ClampHigh(r)
    /\ UNCHANGED <<led_pc, redu_step, redu_i, redu_times, redu_pattern, led_arg, LedOthers>>

LedFadeInEnd ==
    /\ led_last' = "fade_in"
    /\ led_pc = "fade_in"
    /\ ~(redu_value < MaxBrightness)
    /\ led_brightness' = MaxBrightness
    /\ led_state' = TRUE
    /\ led_pc' = "idle"
    /\ redu_value' = 0
    /\ redu_step' = 0
    /\ UNCHANGED <<redu_i, redu_times, redu_pattern, led_arg, LedOthers>>

LedFadeOutStart(s) ==
    /\ UNCHANGED led_last
    /\ led_pc = "idle"
    /\ redu_step' = FadeStep(s)
    /\ redu_value' = ClampHigh(ClampLow(led_brightness))
    /\ led_pc' = "fade_out"
    /\ UNCHANGED <<led_state, led_brightness, redu_i, redu_times, redu_pattern, led_arg, LedOthers>>

LedFadeOutIter ==
    /\ UNCHANGED led_last
    /\ led_pc = "fade_out"
    /\ redu_value > 0
    /\ led_brightness' = redu_value
    /\ led_state' = StateFromBrightness(redu_value)
    /\ \E r \in IntResults(redu_value - redu_step) : redu_value' = ClampLow(r)
    /\ UNCHANGED <<led_pc, redu_step, redu_i, redu_times, redu_pattern, led_arg, LedOthers>>

LedFadeOutEnd ==
    /\ led_last' = "fade_out"
    /\ led_pc = "fade_out"
    /\ ~(redu_value > 0)
    /\ led_brightness' = 0
    /\ led_state' = FALSE
    /\ led_pc' = "idle"
    /\ redu_value' = 0
    /\ redu_step' = 0
    /\ UNCHANGED <<redu_i, redu_times, redu_pattern, led_arg, LedOthers>>

\* LedFlashPattern: an empty pattern emits nothing at all.
LedFlashStart(p) ==
    /\ UNCHANGED led_last
    /\ led_pc = "idle"
    /\ Len(p) > 0
    /\ redu_pattern' = p
    /\ redu_i' = 0
    /\ led_pc' = "flash"
    /\ UNCHANGED <<led_state, led_brightness, redu_value, redu_step, redu_times, led_arg, LedOthers>>

LedFlashIter ==
    /\ UNCHANGED led_last
    /\ led_pc = "flash"
    /\ redu_i < Len(redu_pattern)
    /\ LET v == redu_pattern[redu_i + 1]
       IN  IF v <= 0
           THEN /\ led_brightness' = 0
                /\ led_state' = FALSE
           ELSE IF v = 1
           THEN /\ led_brightness' = MaxBrightness
                /\ led_state' = TRUE
           ELSE /\ led_brightness' = ClampHigh(v)
                /\ led_state' = StateFromBrightness(ClampHigh(v))
    /\ redu_i' = redu_i + 1
    /\ UNCHANGED <<led_pc, redu_value, redu_step, redu_times, redu_pattern, led_arg, LedOthers>>

LedFlashEnd ==
    /\ led_last' = "flash_pattern"
    /\ led_pc = "flash"
    /\ ~(redu_i < Len(redu_pattern))
    /\ led_pc' = "idle"
    /\ redu_i' = 0
    /\ redu_pattern' = <<>>
    /\ UNCHANGED <<led_state, led_brightness, redu_value, redu_step, redu_times, led_arg, LedOthers>>

\* bool __state_<name> = false;  int __brightness_<name> = 0;
LedInit ==
    /\ led_state = FALSE
    /\ led_brightness = 0
    /\ led_pc = "idle"
    /\ redu_value = 0
    /\ redu_step = 0
    /\ redu_i = 0
    /\ redu_times = 0
    /\ redu_pattern = <<>>
    /\ led_last = "none"
    /\ led_arg = 0

LedNext ==
    \/ LedOn
    \/ LedOff
    \/ LedToggle
    \/ \E v \in BrightnessInputs : LedSetBrightness(v)
    \/ \E t \in TimesInputs : LedBlinkStart(t)
    \/ LedBlinkIter
    \/ LedBlinkEnd
    \/ \E s \in StepInputs : LedFadeInStart(s)
    \/ LedFadeInIter
    \/ LedFadeInEnd
    \/ \E s \in StepInputs : LedFadeOutStart(s)
    \/ LedFadeOutIter
    \/ LedFadeOutEnd
    \/ \E p \in PatternInputs : LedFlashStart(p)
    \/ LedFlashIter
    \/ LedFlashEnd

(***************************************************************************)
(* SpecList                                                                *)
(***************************************************************************)

ListNames == {"a", "b"}

\* Heap addresses new[] may return; 0 is nullptr.
MaxAddr == 3
Addr == 1..MaxAddr

\* Longest list an append may build.
MaxListLen == 2

ElemValues == {1, 2}
ListInputs == { <<1>>, <<2, 1>> }

\* __redu_list() : data(nullptr), size(0) {}
EmptyList == [data |-> 0, size |-> 0]

\* The value of a pointer whose array has been deleted (an invalid pointer
\* value: it stays invalid even when new[] hands the address out again).
Dangling == 0 - 1

\* delete[] of the array at `old` invalidates every copy of that pointer.
Invalidate(ls, old) ==
    [m \in ListNames |->
        IF old \in Addr /\ ls[m].data = old
        THEN [ls[m] EXCEPT !.data = Dangling]
        ELSE ls[m]]

\* The elements a read of list l may observe when `live` is the set of live
\* arrays.  Reading through a pointer to a deleted array is undefined: any
\* elements may be observed.
ListValues(l, live, data) ==
    IF l.size = 0 THEN {<<>>}
    ELSE IF l.data \in live
         THEN {SubSeq(data[l.data], 1, l.size)}
         ELSE [1..l.size -> ElemValues]

\* A read of l's elements goes through a dangling pointer.
ReadFaults(l, live, data) ==
    l.size > 0 /\ l.data \notin live

\* delete[] p
DeleteArray(p, live) == IF p = 0 THEN live ELSE live \ {p}
DeleteFaults(p, live) == p # 0 /\ p \notin live

\* Index of the first element equal to v, or Len(s) + 1 when there is none
\* (remove_index == list.size).
RECURSIVE FirstIndex(_, _, _)
FirstIndex(s, v, i) ==
    IF i > Len(s) THEN Len(s) + 1
    ELSE IF s[i] = v THEN i
    ELSE FirstIndex(s, v, i + 1)

RemoveAt(s, k) == [j \in 1..(Len(s) - 1) |-> IF j < k THEN s[j] ELSE s[j + 1]]

\* parser.py: needs_clone = is_declared and _is_list_type(inferred_type)
NeedsClone(is_declared, is_list) == is_declared /\ is_list

\* Contents of the heap after storing `cells` at p and forgetting the array
\* at `old` (when it is another address).
HeapStore(data, p, cells, old) ==
    [x \in Addr |-> IF x = p THEN cells
                    ELSE IF x = old THEN <<>>
                    ELSE data[x]]

\* name = [v1, ...] for a name not yet declared:
\*   __redu_list<int> name = __redu_make_list<int>(v1, ...);
ListDeclareLiteral(d, vals) ==
    /\ ~heap_fault
    /\ ~list_reassign.rejected
    /\ d \notin list_declared
    /\ \E p \in Addr \ heap_live :
          /\ heap_live' = heap_live \cup {p}
          /\ heap_data' = HeapStore(heap_data, p, vals, 0)
          /\ lists' = [lists EXCEPT ![d] = [data |-> p, size |-> Len(vals)]]
    /\ list_declared' = list_declared \cup {d}
    /\ list_info' = [list_info EXCEPT ![d] = Len(vals)]
    /\ list_model' = [list_model EXCEPT ![d] = vals]
    /\ list_src' = [list_src EXCEPT ![d] = "none"]
    /\ list_last' = <<"literal", d>>
    /\ UNCHANGED <<heap_fault, list_reassign, ListOthers>>

\* d = s for a name d not yet declared: needs_clone is false, and the parser
\* emits `__redu_list<int> d = s;` (local) or the default-constructed global
\* followed by `d = s;`.  Either way the struct is copied member by member.
ListDeclareCopy(d, s) ==
    /\ ~heap_fault
    /\ ~list_reassign.rejected
    /\ d \notin list_declared
    /\ s \in list_declared
    /\ ~NeedsClone(d \in list_declared, TRUE)
    /\ lists' = [lists EXCEPT ![d] = lists[s]]
    /\ list_declared' = list_declared \cup {d}
    /\ list_info' = [list_info EXCEPT ![d] = list_info[s]]
    /\ list_model' = [list_model EXCEPT ![d] = list_model[s]]
    /\ list_src' = [list_src EXCEPT ![d] = s]
    /\ list_last' = <<"copy", d>>
    /\ UNCHANGED <<heap_live, heap_data, heap_fault, list_reassign, ListOthers>>

\* d = s for a declared d: __redu_list_assign(d, s).  The parser rejects the
\* line ("list assignment size mismatch") when the tracked lengths differ.
ListAssignCopy(d, s) ==
    /\ ~heap_fault
    /\ ~list_reassign.rejected
    /\ d \in list_declared
    /\ s \in list_declared
    /\ NeedsClone(d \in list_declared, TRUE)
    /\ list_info[d] = list_info[s]
    /\ IF d = s
       THEN UNCHANGED <<heap_live, heap_data, heap_fault, lists>>
       ELSE LET old   == lists[d].data
                live1 == DeleteArray(old, heap_live)
                n     == lists[s].size
            IN  /\ heap_fault' = (\/ DeleteFaults(old, heap_live)
                                   \/ ReadFaults(lists[s], live1, heap_data))
                /\ IF n = 0
                   THEN /\ heap_live' = live1
                        /\ heap_data' = HeapStore(heap_data, 0, <<>>, old)
                        /\ lists' = [Invalidate(lists, old) EXCEPT ![d] = EmptyList]
                   ELSE \E p \in Addr \ live1 :
                        \E cur \in ListValues(lists[s], live1, heap_data) :
                          /\ heap_live' = live1 \cup {p}
                          /\ heap_data' = HeapStore(heap_data, p, cur, old)
                          /\ lists' = [Invalidate(lists, old) EXCEPT ![d] = [data |-> p, size |-> n]]
    /\ list_model' = [list_model EXCEPT ![d] = list_model[s]]
    /\ list_src' = [list_src EXCEPT ![d] = IF d = s THEN list_src[d] ELSE s]
    /\ list_last' = <<"assign", d>>
    /\ UNCHANGED <<list_declared, list_info, list_reassign, ListOthers>>

\* n.append(v): __redu_list_append(n, v); the parser adds one to the tracked
\* length.
ListAppend(n, v) ==
    /\ ~heap_fault
    /\ ~list_reassign.rejected
    /\ n \in list_declared
    /\ lists[n].size < MaxListLen
    /\ list_info[n] < MaxListLen
    /\ LET old == lists[n].data
       IN  \E p \in Addr \ heap_live :
           \E cur \in ListValues(lists[n], heap_live, heap_data) :
             /\ heap_live' = DeleteArray(old, heap_live \cup {p})
             /\ heap_fault' = (\/ DeleteFaults(old, heap_live \cup {p})
                                \/ ReadFaults(lists[n], heap_live, heap_data))
             /\ heap_data' = HeapStore(heap_data, p, Append(cur, v), old)
             /\ lists' = [Invalidate(lists, old) EXCEPT ![n] = [data |-> p, size |-> lists[n].size + 1]]
    /\ list_info' = [list_info EXCEPT ![n] = @ + 1]
    /\ list_model' = [list_model EXCEPT ![n] = Append(@, v)]
    /\ list_last' = <<"append", n>>
    /\ UNCHANGED <<list_declared, list_src, list_reassign, ListOthers>>

\* n.remove(v): __redu_list_remove(n, v); the parser takes one from the
\* tracked length whenever it is positive.
ListRemove(n, v) ==
    /\ ~heap_fault
    /\ ~list_reassign.rejected
    /\ n \in list_declared
    /\ LET old == lists[n].data
           sz  == lists[n].size
       IN  IF sz = 0
           THEN UNCHANGED <<heap_live, heap_data, heap_fault, lists>>
           ELSE \E cur \in ListValues(lists[n], heap_live, heap_data) :
                LET k == FirstIndex(cur, v, 1)
                IN  IF k = sz + 1
                    THEN /\ heap_fault' = ReadFaults(lists[n], heap_live, heap_data)
                         /\ UNCHANGED <<heap_live, heap_data, lists>>
                    ELSE IF sz > 1
                    THEN \E p \in Addr \ heap_live :
                           /\ heap_live' = DeleteArray(old, heap_live \cup {p})
                           /\ heap_fault' = (\/ DeleteFaults(old, heap_live \cup {p})
                                              \/ ReadFaults(lists[n], heap_live, heap_data))
                           /\ heap_data' = HeapStore(heap_data, p, RemoveAt(cur, k), old)
                           /\ lists' = [Invalidate(lists, old) EXCEPT ![n] = [data |-> p, size |-> sz - 1]]
                    ELSE /\ heap_live' = DeleteArray(old, heap_live)
                         /\ heap_fault' = (\/ DeleteFaults(old, heap_live)
                                            \/ ReadFaults(lists[n], heap_live, heap_data))
                         /\ heap_data' = HeapStore(heap_data, 0, <<>>, old)
                         /\ lists' = [Invalidate(lists, old) EXCEPT ![n] = EmptyList]
    /\ list_info' = [list_info EXCEPT ![n] = IF @ > 0 THEN @ - 1 ELSE @]
    /\ list_model' = [list_model EXCEPT ![n] =
                        LET k == FirstIndex(@, v, 1)
                        IN  IF k = Len(@) + 1 THEN @ ELSE RemoveAt(@, k)]
    /\ list_last' = <<"remove", n>>
    /\ UNCHANGED <<list_declared, list_src, list_reassign, ListOthers>>

\* The last reassignment of a declared list from a list literal: the form of
\* the line, the length tracked for the target, the length of the literal,
\* and whether the parser raised an error.
NoReassign == [form |-> "none", tracked |-> 0, new |-> 0, rejected |-> FALSE, count |-> 0]

\* Most reassignments from a literal in one program.
MaxReassigns == 1

\* d = [v1, ...] for a declared d.  The parser raises "list assignment size
\* mismatch" when the literal's length differs from the tracked one, and
\* otherwise emits __redu_list_assign(d, __redu_make_list<int>(v1, ...)).
\* The array of the temporary (at q) is never deleted and nothing refers to
\* it afterwards; its contents are not kept.
ListAssignLiteral(d, vals) ==
    /\ ~heap_fault
    /\ ~list_reassign.rejected
    /\ d \in list_declared
    /\ NeedsClone(d \in list_declared, TRUE)
    /\ list_reassign.count < MaxReassigns
    /\ list_last' = <<"assign_literal", d>>
    /\ IF list_info[d] # Len(vals)
       THEN /\ list_reassign' = [form |-> "plain", tracked |-> list_info[d],
                                 new |-> Len(vals), rejected |-> TRUE,
                                 count |-> list_reassign.count + 1]
            /\ UNCHANGED <<heap_live, heap_data, heap_fault, lists, list_model, list_src>>
       ELSE /\ list_reassign' = [form |-> "plain", tracked |-> list_info[d],
                                 new |-> Len(vals), rejected |-> FALSE,
                                 count |-> list_reassign.count + 1]
            /\ \E q \in Addr \ heap_live :
               LET old   == lists[d].data
                   live1 == DeleteArray(old, heap_live \cup {q})
               IN  \E p \in Addr \ live1 :
                     /\ heap_fault' = DeleteFaults(old, heap_live \cup {q})
                     /\ heap_live' = live1 \cup {p}
                     /\ heap_data' = HeapStore(heap_data, p, vals, old)
                     /\ lists' = [Invalidate(lists, old) EXCEPT ![d] = [data |-> p, size |-> Len(vals)]]
            /\ list_model' = [list_model EXCEPT ![d] = vals]
            /\ list_src' = [list_src EXCEPT ![d] = "none"]
    /\ UNCHANGED <<list_declared, list_info, ListOthers>>

\* No other list holds the pointer of list d: once d is overwritten its array
\* stays allocated but can no longer be read, and its contents are not kept.
Unreferenced(ls, d) == \A m \in ListNames \ {d} : ls[m].data # ls[d].data

\* d, other = [v1, ...], 1 for a declared d.  The tuple branch checks no
\* length and leaves the tracked length alone; it emits
\*   __redu_list<int> __tmp_assign_0 = __redu_make_list<int>(v1, ...);
\*   d = __tmp_assign_0;
\* a member-by-member copy of the struct.
ListTupleAssignLiteral(d, vals) ==
    /\ ~heap_fault
    /\ ~list_reassign.rejected
    /\ d \in list_declared
    /\ list_reassign.count < MaxReassigns
    /\ list_reassign' = [form |-> "tuple", tracked |-> list_info[d],
                         new |-> Len(vals), rejected |-> FALSE,
                         count |-> list_reassign.count + 1]
    /\ \E q \in Addr \ heap_live :
          /\ heap_live' = heap_live \cup {q}
          /\ heap_data' = HeapStore(heap_data, q, vals,
                                    IF Unreferenced(lists, d) THEN lists[d].data ELSE 0)
          /\ lists' = [lists EXCEPT ![d] = [data |-> q, size |-> Len(vals)]]
    /\ list_model' = [list_model EXCEPT ![d] = vals]
    /\ list_src' = [list_src EXCEPT ![d] = "none"]
    /\ list_last' = <<"tuple", d>>
    /\ UNCHANGED <<heap_fault, list_declared, list_info, ListOthers>>

ListInit ==
    /\ heap_live = {}
    /\ heap_data = [x \in Addr |-> <<>>]
    /\ heap_fault = FALSE
    /\ lists = [n \in ListNames |-> EmptyList]
    /\ list_declared = {}
    /\ list_info = [n \in ListNames |-> 0]
    /\ list_model = [n \in ListNames |-> <<>>]
    /\ list_src = [n \in ListNames |-> "none"]
    /\ list_last = <<"none", "none">>
    /\ list_reassign = NoReassign

ListNext ==
    \/ \E d \in ListNames, vals \in ListInputs : ListDeclareLiteral(d, vals)
    \/ \E d \in ListNames, s \in ListNames : ListDeclareCopy(d, s)
    \/ \E d \in ListNames, s \in ListNames : ListAssignCopy(d, s)
    \/ \E n \in ListNames, v \in ElemValues : ListAppend(n, v)
    \/ \E n \in ListNames, v \in ElemValues : ListRemove(n, v)
    \/ \E d \in ListNames, vals \in ListInputs : ListAssignLiteral(d, vals)
    \/ \E d \in ListNames, vals \in ListInputs : ListTupleAssignLiteral(d, vals)

(***************************************************************************)
(* SpecFn                                                                  *)
(***************************************************************************)

FnNames == {"f", "g"}
FnTypes == {"int", "float", "String"}

\* A call signature: the tuple of argument type labels (one parameter here).
FnSigs == {<<t>> : t \in FnTypes}
NoSig == <<>>

\* The function bodies of the model, each over the single parameter a:
\*   ret_param   return a
\*   widen       y = a + "s" ; return y
\*   call        y = <callee>(a) ; return y
\* and ann the annotation of the parameter (`def f(a: int):`), "none" when
\* it has none.
NoShape == [kind |-> "none", callee |-> "none", ann |-> "none"]
FnShapes ==
    {[kind |-> "ret_param", callee |-> "none", ann |-> "none"],
     [kind |-> "ret_param", callee |-> "none", ann |-> "int"],
     [kind |-> "widen", callee |-> "none", ann |-> "none"]}
    \cup {[kind |-> "call", callee |-> c, ann |-> "none"] : c \in FnNames}

\* Where a top-level line calls a function.
CallPlaces == {"assignment", "expression", "condition", "argument"}

\* Top-level lines that call a function.
MaxCalls == 2
\* Top-level function definitions; a name may be defined again.
MaxDefLines == 2

\* Python dicts keep insertion order: a dict is a sequence of <<key, value>>.
DictHas(d, k) == \E i \in 1..Len(d) : d[i][1] = k
DictGet(d, k) == d[CHOOSE i \in 1..Len(d) : d[i][1] = k][2]
DictPut(d, k, v) ==
    IF DictHas(d, k)
    THEN [i \in 1..Len(d) |-> IF d[i][1] = k THEN <<k, v>> ELSE d[i]]
    ELSE Append(d, <<k, v>>)
DictKeys(d) == {d[i][1] : i \in 1..Len(d)}

\* The function tables of the parse context (parse(), ctx = {...}).
EmptyTables ==
    [sources   |-> [n \in FnNames |-> NoShape],   \* function_sources
     defs      |-> [n \in FnNames |-> <<>>],      \* function_defs: sig -> FunctionDef
     functions |-> [n \in FnNames |-> <<>>],      \* functions: sig -> return type
     aliases   |-> [n \in FnNames |-> <<>>],      \* function_signature_aliases
     calls     |-> [n \in FnNames |-> <<>>],      \* function_call_signatures
     primary   |-> [n \in FnNames |-> NoSig],     \* function_primary_signature
     ptypes    |-> [n \in FnNames |-> "none"],    \* function_param_types[name][0]
     refreshing |-> {}]                           \* _refreshing_functions

\* _resolve_signature_alias
ResolveSignatureAlias(tb, name, sig) ==
    IF DictHas(tb.aliases[name], sig) THEN DictGet(tb.aliases[name], sig) ELSE sig

\* _annotation_to_type_label(None)
DefaultParamType == "int"

\* _merge_return_types for the single return statement of a body.
MergeReturnTypes(types) ==
    IF types = {} THEN "void"
    ELSE IF "String" \in types THEN "String"
    ELSE IF "float" \in types THEN "float"
    ELSE IF types = {"bool"} THEN "bool"
    ELSE "int"

\* The tail of _infer_expr_type for a call: the return type it reports.
CallReturnType(tb, fname, sig) ==
    LET variants  == tb.functions[fname]
        canonical == ResolveSignatureAlias(tb, fname, sig)
    IN  IF tb.sources[fname] = NoShape THEN "int"
        ELSE IF DictHas(variants, canonical) THEN DictGet(variants, canonical)
        ELSE IF DictHas(variants, sig) THEN DictGet(variants, sig)
        ELSE IF Len(variants) > 0 THEN variants[1][2]
        ELSE "int"

RECURSIVE EnsureFunctionVariant(_, _, _)
RECURSIVE ParseFunction(_, _, _)
RECURSIVE ParseBody(_, _, _)
RECURSIVE InferCall(_, _, _)
RECURSIVE PendingVariants(_, _, _, _)

\* _infer_expr_type on the call fname(<arg of type sig[1]>): records the
\* signature, makes sure a variant exists, and reports the return type.
\* Returns [tb, type].
InferCall(tb, fname, sig) ==
    LET recorded == tb.calls[fname]
        tb1 == IF \E i \in 1..Len(recorded) : recorded[i] = sig
               THEN tb
               ELSE [tb EXCEPT !.calls[fname] = Append(@, sig)]
        tb2 == EnsureFunctionVariant(tb1, fname, sig)
    IN  [tb |-> tb2, type |-> CallReturnType(tb2, fname, sig)]

\* _ensure_function_variant
EnsureFunctionVariant(tb, name, sig) ==
    LET canonical == ResolveSignatureAlias(tb, name, sig)
        key == <<name, sig>>
    IN  IF DictHas(tb.defs[name], canonical) THEN tb
        ELSE IF tb.sources[name] = NoShape THEN tb
        ELSE IF key \in tb.refreshing THEN tb
        ELSE LET done == ParseFunction([tb EXCEPT !.refreshing = @ \cup {key}], name, sig)
             IN  [done EXCEPT !.refreshing = @ \ {key}]

\* _parse_simple_lines on the body of `name` with the parameter typed t0.
\* Returns [tb, ptype (the parameter's type afterwards), ret, calls (the
\* calls the body nodes hold)].
ParseBody(tb, name, t0) ==
    LET shape == tb.sources[name]
    IN  IF shape.kind = "ret_param"
        THEN [tb |-> tb, ptype |-> t0, ret |-> MergeReturnTypes({t0}), calls |-> {}]
        ELSE IF shape.kind = "widen"
        \* _infer_expr_type(BinOp): "String" in (left, right) retypes the name
        THEN [tb |-> tb, ptype |-> "String", ret |-> MergeReturnTypes({"String"}),
              calls |-> {}]
        ELSE LET r == InferCall(tb, shape.callee, <<t0>>)
             IN  [tb |-> r.tb, ptype |-> t0, ret |-> MergeReturnTypes({r.type}),
                  calls |-> {<<shape.callee, <<t0>>>>}]

\* The loop over the pending call signatures at the end of _parse_function;
\* it walks the live list, which nested parses may extend.
PendingVariants(tb, name, final, i) ==
    IF i > Len(tb.calls[name]) THEN tb
    ELSE LET requested == tb.calls[name][i]
             tb1 == IF requested # final
                    THEN EnsureFunctionVariant(tb, name, requested)
                    ELSE tb
         IN  PendingVariants(tb1, name, final, i + 1)

\* _parse_function (forced = NoSig: the definition itself).
ParseFunction(tb, name, forced) ==
    LET t0 == IF forced # NoSig THEN forced[1]
              ELSE IF tb.sources[name].ann # "none" THEN tb.sources[name].ann
              ELSE IF tb.ptypes[name] # "none" THEN tb.ptypes[name]
              ELSE DefaultParamType
        b  == ParseBody(tb, name, t0)
        final == <<b.ptype>>
        requested == IF forced # NoSig THEN forced ELSE final
        fm1 == DictPut(b.tb.functions[name], final, b.ret)
        fm2 == IF requested # final THEN DictPut(fm1, requested, b.ret) ELSE fm1
        al  == IF requested # final
               THEN DictPut(b.tb.aliases[name], requested, final)
               ELSE b.tb.aliases[name]
        node == [ret |-> b.ret, calls |-> b.calls]
        tb1 == [b.tb EXCEPT !.ptypes[name] = b.ptype,
                            !.functions[name] = fm2,
                            !.aliases[name] = al,
                            !.defs[name] = DictPut(@, final, node)]
    IN  IF forced = NoSig
        THEN PendingVariants([tb1 EXCEPT !.primary[name] = final], name, final, 1)
        ELSE tb1

\* The functions of the final Program: the selection at the end of parse().
RECURSIVE KeepSignatures(_, _, _, _)
KeepSignatures(tb, name, i, keep) ==
    LET used == tb.calls[name]
    IN  IF i > Len(used) THEN keep
        ELSE LET canonical == ResolveSignatureAlias(tb, name, used[i])
             IN  KeepSignatures(tb, name, i + 1,
                    IF DictHas(tb.defs[name], canonical)
                       /\ ~(\E j \in 1..Len(keep) : keep[j] = canonical)
                    THEN Append(keep, canonical)
                    ELSE keep)

SelectedSignatures(tb, name) ==
    IF Len(tb.calls[name]) > 0
    THEN KeepSignatures(tb, name, 1, <<>>)
    ELSE IF tb.primary[name] # NoSig /\ DictHas(tb.defs[name], tb.primary[name])
    THEN <<tb.primary[name]>>
    ELSE IF Len(tb.defs[name]) > 0 THEN <<tb.defs[name][1][1]>>
    ELSE <<>>

SelectedFunctions(tb) ==
    UNION { { <<n, SelectedSignatures(tb, n)[i]>> :
                i \in 1..Len(SelectedSignatures(tb, n)) } : n \in FnNames }

\* The call lines among the source lines read so far.
FnCallLines == {i \in 1..Len(fn_src) : fn_src[i].op = "call"}
FnTopCalls == {[name |-> fn_src[i].name, sig |-> <<fn_src[i].t>>, place |-> fn_src[i].place] :
                 i \in FnCallLines}

FnDefLines == {i \in 1..Len(fn_src) : fn_src[i].op = "def"}

\* def name(a): <body>   at top level.
FnDefine(name, shape) ==
    /\ ~fn_done
    /\ Cardinality(FnDefLines) < MaxDefLines
    /\ fn_tables' = ParseFunction([fn_tables EXCEPT !.sources[name] = shape],
                                  name, NoSig)
    /\ fn_src' = Append(fn_src, [op |-> "def", name |-> name, shape |-> shape,
                                 t |-> "none", place |-> "none"])
    /\ UNCHANGED <<fn_selected, fn_done, FnOthers>>

\* z = name(<literal of type t>)   at top level: _handle_assignment_ast
\* infers the type of the right-hand side.
FnCallInAssignment(name, t) ==
    /\ ~fn_done
    /\ Cardinality(FnCallLines) < MaxCalls
    /\ fn_tables' = InferCall(fn_tables, name, <<t>>).tb
    /\ fn_src' = Append(fn_src, [op |-> "call", name |-> name, shape |-> NoShape,
                                 t |-> t, place |-> "assignment"])
    /\ UNCHANGED <<fn_selected, fn_done, FnOthers>>

\* name(<literal>) as a statement, inside an `if` condition, or as the
\* argument of Sleep(...): the line is rendered with _to_c_expr only.
FnCallElsewhere(name, t, place) ==
    /\ ~fn_done
    /\ Cardinality(FnCallLines) < MaxCalls
    /\ place # "assignment"
    /\ fn_src' = Append(fn_src, [op |-> "call", name |-> name, shape |-> NoShape,
                                 t |-> t, place |-> place])
    /\ UNCHANGED <<fn_tables, fn_selected, fn_done, FnOthers>>

\* End of input: parse() selects the functions of the Program.
FnFinish ==
    /\ ~fn_done
    /\ fn_selected' = SelectedFunctions(fn_tables)
    /\ fn_done' = TRUE
    /\ UNCHANGED <<fn_tables, fn_src, FnOthers>>

FnInit ==
    /\ fn_tables = EmptyTables
    /\ fn_src = <<>>
    /\ fn_selected = {}
    /\ fn_done = FALSE

FnNext ==
    \/ \E name \in FnNames, shape \in FnShapes : FnDefine(name, shape)
    \/ \E name \in FnNames, t \in FnTypes : FnCallInAssignment(name, t)
    \/ \E name \in FnNames, t \in FnTypes, place \in CallPlaces :
          FnCallElsewhere(name, t, place)
    \/ FnFinish

(***************************************************************************)
(* SpecParse                                                               *)
(***************************************************************************)

\* User variables of the source programs.
Names == {"x", "y"}

\* Statement lines (assignments) a source program holds.
MaxLines == 3
\* Nesting of blocks below the top level.
MaxDepth == 2
\* Branches of one if/elif/else, the else included.
MaxBranches == 3
\* Control constructs (if, while, while True) a source program holds.
MaxBlocks == 2

\* Right-hand sides of an assignment `name = <rhs>`:
\*   1, 1.5, "ab", "abcd", len(x), len(y)
RhsKinds == {[k |-> "int", n |-> "", v |-> 1],
             [k |-> "float", n |-> "", v |-> 1],
             [k |-> "str", n |-> "", v |-> 2],
             [k |-> "str", n |-> "", v |-> 4]}
            \cup {[k |-> "len", n |-> m, v |-> 0] : m \in Names}

\* The assignment lines a source program is made of:
\*   x = 1, x = "ab", x = "abcd", y = 1, y = 1.5, y = len(x)
AssignInputs ==
    {<<"x", [k |-> "int", n |-> "", v |-> 1]>>,
     <<"x", [k |-> "str", n |-> "", v |-> 2]>>,
     <<"x", [k |-> "str", n |-> "", v |-> 4]>>,
     <<"y", [k |-> "int", n |-> "", v |-> 1]>>,
     <<"y", [k |-> "float", n |-> "", v |-> 1]>>,
     <<"y", [k |-> "len", n |-> "x", v |-> 0]>>}
\* The names of the augmented assignment lines `name += 1`.
AugInputs == {"y"}

\* Entries of ctx["vars"]: a constant (int, float, or a str of length len),
\* an _ExprStr ("rt": only known at run time), or no entry ("none").
NoValue == [k |-> "none", len |-> 0]
RtValue == [k |-> "rt", len |-> 0]
ConstValue(kind, length) == [k |-> kind, len |-> length]

\* Rendered C++ expressions: literals (v: the int value, or the length of a
\* string literal), `static_cast<int>(__redu_len(n))`, `(n + 1)`, and the
\* temporary __tmp_assign_<v>.
NoExpr == [k |-> "none", n |-> "", v |-> 0]
IntLiteral(v) == [k |-> "int", n |-> "", v |-> v]

\* _eval_const on a right-hand side: the constant value, or NoValue when it
\* raises (len() of a name that is not bound to a constant string).
EvalConst(rhs, env) ==
    IF rhs.k \in {"int", "float"} THEN ConstValue(rhs.k, 0)
    ELSE IF rhs.k = "str" THEN ConstValue("str", rhs.v)
    ELSE IF rhs.k = "len" /\ env[rhs.n].k = "str" THEN ConstValue("int", 0)
    ELSE NoValue

\* _to_c_expr: _literal_length folds len(name) when the environment binds the
\* name to a constant string.
ToCExpr(rhs, env) ==
    IF rhs.k = "len"
    THEN IF env[rhs.n].k = "str" THEN IntLiteral(env[rhs.n].len) ELSE rhs
    ELSE rhs

\* eval_or_expr: <<C expression, value bound in the environment, is_const>>.
EvalOrExpr(rhs, env) ==
    LET c == EvalConst(rhs, env)
    IN  IF c # NoValue THEN [expr |-> ToCExpr(rhs, env), value |-> c, is_const |-> TRUE]
        ELSE [expr |-> ToCExpr(rhs, env), value |-> RtValue, is_const |-> FALSE]

\* _expr_has_name
ExprHasName(rhs) == rhs.k = "len"

\* _infer_expr_type on a right-hand side.
InferExprType(rhs) ==
    IF rhs.k = "str" THEN "String"
    ELSE IF rhs.k = "float" THEN "float"
    ELSE "int"

\* _infer_expr_type on the BinOp `name + 1` of an augmented assignment.
InferAugType(left) ==
    IF left = "String" THEN "String"
    ELSE IF left = "float" THEN "float"
    ELSE "int"

\* var_types.get(name, "int")
TypeOrInt(types, name) == IF types[name] = "none" THEN "int" ELSE types[name]

\* _cpp_type on the scalar labels.
CppType(label) == IF label \in {"int", "float", "bool", "String", "void"} THEN label ELSE "int"

\* _default_value_for_type: 0, 0.0 or "".
DefaultValueForType(ctype) ==
    IF ctype = "float" THEN [k |-> "float", n |-> "", v |-> 0]
    ELSE IF ctype = "String" THEN [k |-> "str", n |-> "", v |-> 0]
    ELSE IntLiteral(0)

\* AST nodes of the Program: VarDecl, VarAssign, IfStatement, WhileLoop.
\* (Conditions are run-time expressions over no user variable and are left
\* out.)  A VarDecl of the temporary __tmp_assign_<idx> has t = "tmp".
VarDecl(name, ctype, expr, glob) ==
    [t |-> "decl", name |-> name, idx |-> 0, ctype |-> ctype, expr |-> expr,
     glob |-> glob, kids |-> <<>>, els |-> <<>>]
VarAssign(name, expr) ==
    [t |-> "assign", name |-> name, idx |-> 0, ctype |-> "", expr |-> expr,
     glob |-> FALSE, kids |-> <<>>, els |-> <<>>]
IfStatement(branches, else_body) ==
    [t |-> "if", name |-> "", idx |-> 0, ctype |-> "", expr |-> NoExpr,
     glob |-> FALSE, kids |-> branches, els |-> else_body]
WhileLoop(body) ==
    [t |-> "while", name |-> "", idx |-> 0, ctype |-> "", expr |-> NoExpr,
     glob |-> FALSE, kids |-> <<body>>, els |-> <<>>]
TmpDecl(idx, ctype, expr) ==
    [t |-> "tmp", name |-> "", idx |-> idx, ctype |-> ctype, expr |-> expr,
     glob |-> FALSE, kids |-> <<>>, els |-> <<>>]
TmpRef(idx) == [k |-> "tmp", n |-> "", v |-> idx]

\* Every order in which iterating a Python set may yield its elements (the
\* order of a set of str depends on the process's hash seed).
SetOrders(S) ==
    {s \in [1..Cardinality(S) -> S] :
        \A i, j \in 1..Cardinality(S) : i # j => s[i] # s[j]}

\* Append to acc the names of seq that are neither in acc nor in skip.
RECURSIVE AppendNew(_, _, _)
AppendNew(acc, seq, skip) ==
    IF seq = <<>> THEN acc
    ELSE LET n == Head(seq)
         IN  AppendNew(IF n \in skip \/ (\E i \in 1..Len(acc) : acc[i] = n)
                       THEN acc ELSE Append(acc, n),
                       Tail(seq), skip)

\* _promote_branch_decls: the lists `order` it can return.  entries holds the
\* branch contexts in text order, the else branch last.
RECURSIVE PromoteOrders(_, _, _, _)
PromoteOrders(entries, i, acc, parent_declared) ==
    IF i > Len(entries) THEN {acc}
    ELSE UNION { PromoteOrders(entries, i + 1, AppendNew(acc, p, parent_declared),
                               parent_declared) :
                 p \in SetOrders(entries[i].declared \ entries[i].base) }

\* _promote_branch_decls: inferred[name], taken from the first branch that
\* records the name.
PromotedType(entries, name) ==
    LET first == CHOOSE i \in 1..Len(entries) :
                    /\ name \in entries[i].declared \ entries[i].base
                    /\ \A j \in 1..(i - 1) :
                          name \notin entries[j].declared \ entries[j].base
    IN  TypeOrInt(entries[first].types, name)

\* A rewrite that keeps every node as it is.
RewriteIfNodesKeep(nodes, promoted) == nodes

\* The _rewrite closure of the if handling: declarations of promoted names
\* become assignments; it descends into IfStatement nodes only.
RECURSIVE RewriteIfNodes(_, _)
RewriteIfNodes(nodes, promoted) ==
    [i \in 1..Len(nodes) |->
        LET node == nodes[i]
        IN  IF node.t = "decl" /\ node.name \in promoted
            THEN VarAssign(node.name, node.expr)
            ELSE IF node.t = "if"
            THEN IfStatement([b \in 1..Len(node.kids) |->
                                 RewriteIfNodes(node.kids[b], promoted)],
                             RewriteIfNodes(node.els, promoted))
            ELSE node]

\* _rewrite_nodes: as above, descending into IfStatement and WhileLoop.
RECURSIVE RewriteNodes(_, _)
RewriteNodes(nodes, promoted) ==
    [i \in 1..Len(nodes) |->
        LET node == nodes[i]
        IN  IF node.t = "decl" /\ node.name \in promoted
            THEN VarAssign(node.name, node.expr)
            ELSE IF node.t = "if"
            THEN IfStatement([b \in 1..Len(node.kids) |->
                                 RewriteNodes(node.kids[b], promoted)],
                             RewriteNodes(node.els, promoted))
            ELSE IF node.t = "while"
            THEN WhileLoop(RewriteNodes(node.kids[1], promoted))
            ELSE node]

\* _collect_order of the while handling: promoted names in the order their
\* VarDecl nodes occur in the loop body.
RECURSIVE CollectOrder(_, _, _)
RECURSIVE CollectOrderBranches(_, _, _)
CollectOrder(nodes, promoted_set, acc) ==
    IF nodes = <<>> THEN acc
    ELSE LET node == Head(nodes)
             acc1 == IF node.t = "decl" /\ node.name \in promoted_set
                     THEN AppendNew(acc, <<node.name>>, {})
                     ELSE IF node.t = "if"
                     THEN CollectOrder(node.els, promoted_set,
                              CollectOrderBranches(node.kids, promoted_set, acc))
                     ELSE IF node.t = "while"
                     THEN CollectOrder(node.kids[1], promoted_set, acc)
                     ELSE acc
         IN  CollectOrder(Tail(nodes), promoted_set, acc1)
CollectOrderBranches(branches, promoted_set, acc) ==
    IF branches = <<>> THEN acc
    ELSE CollectOrderBranches(Tail(branches), promoted_set,
                              CollectOrder(Head(branches), promoted_set, acc))

\* _make_promotion_decls: the globals list afterwards and the local
\* declarations it returns.  ctype_of[name] is the C++ type it resolves.
RECURSIVE MakePromotionDecls(_, _, _, _, _)
MakePromotionDecls(order, ctype_of, is_global, globals, decls) ==
    IF order = <<>> THEN [globals |-> globals, decls |-> decls]
    ELSE LET name == Head(order)
             cpp  == ctype_of[name]
             decl == VarDecl(name, cpp, DefaultValueForType(cpp), is_global)
         IN  IF is_global
             THEN MakePromotionDecls(Tail(order), ctype_of, is_global,
                      IF \A i \in 1..Len(globals) : globals[i].name # name
                      THEN Append(globals, decl) ELSE globals,
                      decls)
             ELSE MakePromotionDecls(Tail(order), ctype_of, is_global, globals,
                                     Append(decls, decl))

SeqRange(s) == {s[i] : i \in 1..Len(s)}

\* A parse context with the body being built for it.  `pinfo` refers to the
\* shared _promotion_cpp_types dict (0: the ctx has no such key); `reach` and
\* `text` are bookkeeping of the model: the values a name may hold at this
\* point of the text (a string's length, 0 for a number), and the names the
\* block first declares, in text order.
TopFrame ==
    [kind |-> "top", scope |-> "setup", depth |-> 0,
     vars |-> [n \in Names |-> NoValue],
     types |-> [n \in Names |-> "none"],
     declared |-> {}, base |-> {},
     body |-> <<>>, entries |-> <<>>, tmp |-> 0, pinfo |-> 0,
     reach |-> [n \in Names |-> {}], text |-> <<>>]

\* dict(ctx) with fresh copies of vars, var_types and var_declared.
ChildFrame(f, kind) ==
    [kind |-> kind, scope |-> f.scope, depth |-> f.depth + 1,
     vars |-> f.vars, types |-> f.types,
     declared |-> f.declared, base |-> f.declared,
     body |-> <<>>, entries |-> <<>>, tmp |-> f.tmp, pinfo |-> f.pinfo,
     reach |-> f.reach, text |-> <<>>]

CurFrame == parse_stack[Len(parse_stack)]
ParentFrame == parse_stack[Len(parse_stack) - 1]
ReplaceTop(f) == [parse_stack EXCEPT ![Len(parse_stack)] = f]
\* Pop the current frame and replace the one below it by f.
PopInto(f) == Append(SubSeq(parse_stack, 1, Len(parse_stack) - 2), f)

IsGlobalScope(f) == f.scope = "setup" /\ f.depth = 0

StatementLines ==
    Cardinality({i \in 1..Len(parse_src) : parse_src[i].op \in {"assign", "aug", "tuple"}})

Blocks ==
    Cardinality({i \in 1..Len(parse_src) : parse_src[i].op \in {"if", "while", "mainloop"}})

SrcLine(op, name, rhs) == [op |-> op, name |-> name, rhs |-> rhs]

\* name = <rhs>: _handle_assignment_ast, Name target.
ParseAssign(n, rhs) ==
    /\ ~parse_done
    /\ StatementLines < MaxLines
    /\ LET f == CurFrame
           ev == EvalOrExpr(rhs, f.vars)
           inferred == InferExprType(rhs)
           cpp == CppType(inferred)
           is_new == n \notin f.declared
           is_global == IsGlobalScope(f)
           needs_runtime_assign == is_global /\ (~ev.is_const \/ ExprHasName(rhs))
           init_expr == IF needs_runtime_assign THEN DefaultValueForType(cpp) ELSE ev.expr
           decl == VarDecl(n, cpp, init_expr, is_global)
           nodes == IF ~is_new THEN <<VarAssign(n, ev.expr)>>
                    ELSE IF ~is_global THEN <<decl>>
                    ELSE IF needs_runtime_assign THEN <<VarAssign(n, ev.expr)>>
                    ELSE <<>>
           folded == rhs.k = "len" /\ f.vars[rhs.n].k = "str"
       IN  /\ parse_stack' = ReplaceTop(
                  [f EXCEPT !.types[n] = inferred,
                            !.vars[n] = ev.value,
                            !.declared = @ \cup {n},
                            !.body = @ \o nodes,
                            !.reach[n] = {IF rhs.k = "str" THEN rhs.v ELSE 0},
                            !.text = IF is_new THEN Append(@, n) ELSE @])
           /\ parse_globals' = IF is_new /\ is_global
                               THEN Append(parse_globals, decl)
                               ELSE parse_globals
           /\ parse_folds' = IF folded
                             THEN parse_folds \cup
                                    {[name |-> rhs.n, lit |-> f.vars[rhs.n].len,
                                      reach |-> f.reach[rhs.n]]}
                             ELSE parse_folds
    /\ parse_src' = Append(parse_src, SrcLine("assign", n, rhs))
    /\ parse_reads_ok' = (parse_reads_ok /\ (rhs.k = "len" =>
                              /\ rhs.n \in CurFrame.declared
                              /\ CurFrame.types[rhs.n] = "String"))
    /\ UNCHANGED <<parse_pinfo, parse_loop, parse_done, parse_last, parse_run1,
                   parse_run2, ParseOthers>>

\* name += 1: _handle_assignment_ast, AugAssign.
ParseAugAssign(n) ==
    /\ ~parse_done
    /\ StatementLines < MaxLines
    /\ LET f == CurFrame
       IN  parse_stack' = ReplaceTop(
              [f EXCEPT !.types[n] = InferAugType(TypeOrInt(f.types, n)),
                        !.vars[n] = RtValue,
                        !.body = Append(@, VarAssign(n, [k |-> "aug", n |-> n, v |-> 1])),
                        !.reach[n] = {0}])
    /\ parse_src' = Append(parse_src, SrcLine("aug", n, NoExpr))
    /\ parse_reads_ok' = (parse_reads_ok /\ n \in CurFrame.declared)
    /\ UNCHANGED <<parse_globals, parse_pinfo, parse_loop, parse_done, parse_last,
                   parse_folds, parse_run1, parse_run2, ParseOthers>>

\* x, y = 2, 3: _handle_assignment_ast, Tuple target.
ParseTupleAssign ==
    /\ ~parse_done
    /\ StatementLines < MaxLines
    /\ LET f == CurFrame
           left == <<"x", "y">>
           right == <<IntLiteral(2), IntLiteral(3)>>
           all_new == \A i \in 1..2 : left[i] \notin f.declared
           f1 == [f EXCEPT !.types = [n \in Names |-> IF n \in SeqRange(left) THEN "int" ELSE @[n]],
                           !.vars = [n \in Names |-> IF n \in SeqRange(left)
                                                     THEN ConstValue("int", 0) ELSE @[n]],
                           !.declared = @ \cup SeqRange(left),
                           !.reach = [n \in Names |-> IF n \in SeqRange(left) THEN {0} ELSE @[n]],
                           !.text = AppendNew(@, left, f.declared)]
       IN  IF all_new /\ IsGlobalScope(f)
           THEN /\ parse_stack' = ReplaceTop(f1)
                /\ parse_globals' = parse_globals \o
                       [i \in 1..2 |-> VarDecl(left[i], "int", right[i], TRUE)]
           ELSE /\ parse_stack' = ReplaceTop(
                       [f1 EXCEPT !.tmp = @ + 2,
                                  !.body = @ \o
                                      [i \in 1..2 |-> TmpDecl(f.tmp + i - 1, "int", right[i])]
                                      \o
                                      [i \in 1..2 |->
                                          IF left[i] \notin f.declared
                                          THEN VarDecl(left[i], "int", TmpRef(f.tmp + i - 1), FALSE)
                                          ELSE VarAssign(left[i], TmpRef(f.tmp + i - 1))]])
                /\ UNCHANGED parse_globals
    /\ parse_src' = Append(parse_src, SrcLine("tuple", "", NoExpr))
    /\ UNCHANGED <<parse_pinfo, parse_loop, parse_done, parse_last, parse_folds,
                   parse_run1, parse_run2, parse_reads_ok, ParseOthers>>

\* The names the branches of one conditional first declare, in text order.
RECURSIVE BranchTextOrder(_, _, _, _)
BranchTextOrder(entries, i, acc, skip) ==
    IF i > Len(entries) THEN acc
    ELSE BranchTextOrder(entries, i + 1, AppendNew(acc, entries[i].text, skip), skip)

\* The widest of a set of type labels: String over float over int.
WidestType(labels) ==
    IF "String" \in labels THEN "String"
    ELSE IF "float" \in labels THEN "float"
    ELSE "int"

NoEvent ==
    [kind |-> "none", hoisted |-> <<>>, text |-> <<>>, every |-> {},
     ctypes |-> [n \in Names |-> ""], merged |-> [n \in Names |-> ""],
     branches |-> 0, decls_before |-> [n \in Names |-> 0],
     decls_inside |-> [n \in Names |-> 0]]

\* Number of VarDecl nodes for `name` in a node list, nested bodies included.
RECURSIVE CountDecls(_, _)
RECURSIVE CountDeclsBranches(_, _)
CountDecls(nodes, name) ==
    IF nodes = <<>> THEN 0
    ELSE LET node == Head(nodes)
             here == IF node.t = "decl" /\ node.name = name THEN 1
                     ELSE IF node.t \in {"if", "while"}
                     THEN CountDeclsBranches(node.kids, name) + CountDecls(node.els, name)
                     ELSE 0
         IN  here + CountDecls(Tail(nodes), name)
CountDeclsBranches(branches, name) ==
    IF branches = <<>> THEN 0
    ELSE CountDecls(Head(branches), name) + CountDeclsBranches(Tail(branches), name)

\* if <cond>: a branch context is made and its block parsed.
ParseOpenIf ==
    /\ ~parse_done
    /\ Blocks < MaxBlocks
    /\ CurFrame.depth < MaxDepth
    /\ StatementLines < MaxLines
    /\ parse_stack' = Append(ReplaceTop([CurFrame EXCEPT !.entries = <<>>]),
                             ChildFrame(CurFrame, "if"))
    /\ parse_src' = Append(parse_src, SrcLine("if", "", NoExpr))
    /\ UNCHANGED <<parse_globals, parse_pinfo, parse_loop, parse_done, parse_last,
                   parse_folds, parse_run1, parse_run2, parse_reads_ok, ParseOthers>>

\* elif <cond>: / else: the branch that ends is kept as an entry, and the
\* next branch starts from the context the conditional started from.
ParseNextBranch(kind) ==
    /\ ~parse_done
    /\ CurFrame.kind \in {"if", "elif"}
    /\ CurFrame.body # <<>>
    /\ Len(ParentFrame.entries) + 2 <= MaxBranches
    /\ StatementLines < MaxLines
    /\ LET parent == [ParentFrame EXCEPT !.entries = Append(@, [CurFrame EXCEPT !.entries = <<>>])]
       IN  parse_stack' = Append(PopInto(parent), ChildFrame(ParentFrame, kind))
    /\ parse_src' = Append(parse_src, SrcLine(kind, "", NoExpr))
    /\ UNCHANGED <<parse_globals, parse_pinfo, parse_loop, parse_done, parse_last,
                   parse_folds, parse_run1, parse_run2, parse_reads_ok, ParseOthers>>

ParseElif == ParseNextBranch("elif")
ParseElse == ParseNextBranch("else")

\* End of the conditional: _promote_branch_decls, the _rewrite of the branch
\* bodies, _make_promotion_decls, and the IfStatement appended to the body.
ParseEndIf ==
    /\ ~parse_done
    /\ CurFrame.kind \in {"if", "elif", "else"}
    /\ CurFrame.body # <<>>
    /\ LET parent == ParentFrame
           entries == Append(parent.entries, [CurFrame EXCEPT !.entries = <<>>])
           has_else == CurFrame.kind = "else"
           orders == PromoteOrders(entries, 1, <<>>, parent.declared)
       IN  \E order \in orders, order2 \in orders :
             LET promoted == SeqRange(order)
                 py_type == [n \in Names |-> IF n \in promoted
                                             THEN PromotedType(entries, n) ELSE "int"]
                 ctype_of == [n \in Names |-> CppType(py_type[n])]
                 made == MakePromotionDecls(order, ctype_of, IsGlobalScope(parent),
                                            parse_globals, <<>>)
                 bodies == [i \in 1..Len(entries) |->
                               IF order # <<>> THEN RewriteIfNodes(entries[i].body, promoted)
                               ELSE entries[i].body]
                 nbranch == IF has_else THEN Len(entries) - 1 ELSE Len(entries)
                 stmt == IfStatement(SubSeq(bodies, 1, nbranch),
                                     IF has_else THEN bodies[Len(entries)] ELSE <<>>)
                 pid == IF order = <<>> THEN parent.pinfo
                        ELSE IF parent.pinfo = 0 THEN Len(parse_pinfo) + 1
                        ELSE parent.pinfo
                 old == IF parent.pinfo = 0 THEN [n \in Names |-> ""]
                        ELSE parse_pinfo[parent.pinfo]
                 new == [n \in Names |-> IF n \in promoted THEN ctype_of[n] ELSE old[n]]
                 text == BranchTextOrder(entries, 1, <<>>, parent.declared)
                 newly(i) == entries[i].declared \ entries[i].base
                 p1 == [parent EXCEPT
                          !.types = [n \in Names |-> IF n \in promoted THEN py_type[n] ELSE @[n]],
                          !.vars = [n \in Names |-> IF n \in promoted THEN RtValue ELSE @[n]],
                          !.declared = @ \cup promoted,
                          !.body = @ \o made.decls \o <<stmt>>,
                          !.entries = <<>>,
                          !.pinfo = pid,
                          !.reach = [n \in Names |->
                                       UNION {entries[i].reach[n] : i \in 1..Len(entries)}
                                       \cup (IF has_else THEN {} ELSE @[n])],
                          !.text = @ \o text]
             IN  /\ parse_stack' = PopInto(p1)
                 /\ parse_globals' = made.globals
                 /\ parse_pinfo' = IF order = <<>> THEN parse_pinfo
                                   ELSE IF parent.pinfo = 0 THEN Append(parse_pinfo, new)
                                   ELSE [parse_pinfo EXCEPT ![parent.pinfo] = new]
                 /\ parse_last' =
                       [kind |-> "if", hoisted |-> order, text |-> text,
                        every |-> IF has_else
                                  THEN {n \in promoted : \A i \in 1..Len(entries) : n \in newly(i)}
                                  ELSE {},
                        ctypes |-> [n \in Names |-> IF n \in promoted THEN ctype_of[n] ELSE ""],
                        merged |-> [n \in Names |->
                                      IF n \in promoted
                                      THEN WidestType({TypeOrInt(entries[i].types, n) :
                                                          i \in {j \in 1..Len(entries) : n \in newly(j)}})
                                      ELSE ""],
                        branches |-> Len(entries),
                        decls_before |-> [n \in Names |->
                            Cardinality({i \in 1..Len(made.globals) : made.globals[i].name = n})
                            + Cardinality({i \in 1..Len(parent.body \o made.decls) :
                                              /\ (parent.body \o made.decls)[i].t = "decl"
                                              /\ (parent.body \o made.decls)[i].name = n})],
                        decls_inside |-> [n \in Names |-> CountDecls(<<stmt>>, n)]]
                 /\ parse_run1' = parse_run1 \o order
                 /\ parse_run2' = parse_run2 \o order2
    /\ parse_src' = Append(parse_src, SrcLine("endif", "", NoExpr))
    /\ UNCHANGED <<parse_loop, parse_done, parse_folds, parse_reads_ok, ParseOthers>>

\* while <cond>: a child context is made and the loop's block parsed.
ParseOpenWhile ==
    /\ ~parse_done
    /\ Blocks < MaxBlocks
    /\ CurFrame.depth < MaxDepth
    /\ StatementLines < MaxLines
    /\ parse_stack' = Append(parse_stack, ChildFrame(CurFrame, "while"))
    /\ parse_src' = Append(parse_src, SrcLine("while", "", NoExpr))
    /\ UNCHANGED <<parse_globals, parse_pinfo, parse_loop, parse_done, parse_last,
                   parse_folds, parse_run1, parse_run2, parse_reads_ok, ParseOthers>>

\* End of the while block: every name the block declared is promoted.
ParseEndWhile ==
    /\ ~parse_done
    /\ CurFrame.kind = "while"
    /\ CurFrame.body # <<>>
    /\ LET parent == ParentFrame
           child == CurFrame
           promoted_set == child.declared \ child.base
           collected == CollectOrder(child.body, promoted_set, <<>>)
           rest == promoted_set \ SeqRange(collected)
       IN  \E tail \in SetOrders(rest), tail2 \in SetOrders(rest) :
             LET promoted_names == collected \o tail
                 types1 == [n \in Names |-> IF n \in promoted_set
                                            THEN TypeOrInt(child.types, n)
                                            ELSE parent.types[n]]
                 info == IF parent.pinfo = 0 THEN [n \in Names |-> ""]
                         ELSE parse_pinfo[parent.pinfo]
                 ctype_of == [n \in Names |-> IF info[n] # "" THEN info[n]
                                              ELSE CppType(TypeOrInt(types1, n))]
                 made == MakePromotionDecls(promoted_names, ctype_of, IsGlobalScope(parent),
                                            parse_globals, <<>>)
                 loop_body == IF promoted_names # <<>>
                              THEN RewriteNodes(child.body, promoted_set)
                              ELSE child.body
                 stmt == WhileLoop(loop_body)
                 fresh == promoted_names # <<>> /\ parent.pinfo = 0
                 p1 == [parent EXCEPT
                          !.types = types1,
                          !.vars = [n \in Names |-> IF n \in promoted_set THEN RtValue ELSE @[n]],
                          !.declared = @ \cup promoted_set,
                          !.body = @ \o made.decls \o <<stmt>>,
                          !.tmp = child.tmp,
                          !.pinfo = IF fresh THEN Len(parse_pinfo) + 1 ELSE @,
                          !.reach = [n \in Names |-> @[n] \cup child.reach[n]],
                          !.text = @ \o child.text]
             IN  /\ parse_stack' = PopInto(p1)
                 /\ parse_globals' = made.globals
                 /\ parse_pinfo' = IF fresh THEN Append(parse_pinfo, [n \in Names |-> ""])
                                   ELSE parse_pinfo
                 /\ parse_last' =
                       [NoEvent EXCEPT !.kind = "while",
                                       !.hoisted = promoted_names,
                                       !.text = child.text,
                                       !.ctypes = [n \in Names |-> IF n \in promoted_set
                                                                   THEN ctype_of[n] ELSE ""]]
                 /\ parse_run1' = parse_run1 \o promoted_names
                 /\ parse_run2' = parse_run2 \o (collected \o tail2)
    /\ parse_src' = Append(parse_src, SrcLine("endwhile", "", NoExpr))
    /\ UNCHANGED <<parse_loop, parse_done, parse_folds, parse_reads_ok, ParseOthers>>

\* while True: at the top level; its block is parsed with the top-level ctx
\* itself, scope "loop", depth 1.
ParseOpenMainLoop ==
    /\ ~parse_done
    /\ Blocks < MaxBlocks
    /\ Len(parse_stack) = 1
    /\ StatementLines < MaxLines
    /\ parse_stack' = Append(parse_stack,
                             [ChildFrame(CurFrame, "mainloop") EXCEPT !.scope = "loop",
                                                                      !.depth = 1])
    /\ parse_src' = Append(parse_src, SrcLine("mainloop", "", NoExpr))
    /\ UNCHANGED <<parse_globals, parse_pinfo, parse_loop, parse_done, parse_last,
                   parse_folds, parse_run1, parse_run2, parse_reads_ok, ParseOthers>>

\* End of the while True: block; the nodes go to loop_body, and what the
\* block did to the ctx stays.
ParseEndMainLoop ==
    /\ ~parse_done
    /\ CurFrame.kind = "mainloop"
    /\ CurFrame.body # <<>>
    /\ parse_stack' = PopInto([ParentFrame EXCEPT !.vars = CurFrame.vars,
                                                  !.types = CurFrame.types,
                                                  !.declared = CurFrame.declared,
                                                  !.tmp = CurFrame.tmp,
                                                  !.pinfo = CurFrame.pinfo,
                                                  !.reach = CurFrame.reach,
                                                  !.text = @ \o CurFrame.text])
    /\ parse_loop' = parse_loop \o CurFrame.body
    /\ parse_src' = Append(parse_src, SrcLine("endmainloop", "", NoExpr))
    /\ UNCHANGED <<parse_globals, parse_pinfo, parse_done, parse_last, parse_folds,
                   parse_run1, parse_run2, parse_reads_ok, ParseOthers>>

\* End of the source text: parse() returns the Program.
ParseFinish ==
    /\ ~parse_done
    /\ Len(parse_stack) = 1
    /\ parse_src # <<>>
    /\ parse_done' = TRUE
    /\ UNCHANGED <<parse_stack, parse_globals, parse_pinfo, parse_loop, parse_src,
                   parse_last, parse_folds, parse_run1, parse_run2, parse_reads_ok, ParseOthers>>

setup_body == parse_stack[1].body
loop_body == parse_loop
global_decls == parse_globals

ParseInit ==
    /\ parse_stack = <<TopFrame>>
    /\ parse_globals = <<>>
    /\ parse_pinfo = <<>>
    /\ parse_loop = <<>>
    /\ parse_src = <<>>
    /\ parse_done = FALSE
    /\ parse_last = NoEvent
    /\ parse_folds = {}
    /\ parse_run1 = <<>>
    /\ parse_run2 = <<>>
    /\ parse_reads_ok = TRUE

ParseNext ==
    \/ \E a \in AssignInputs : ParseAssign(a[1], a[2])
    \/ \E n \in AugInputs : ParseAugAssign(n)
    \/ ParseTupleAssign
    \/ ParseOpenIf
    \/ ParseElif
    \/ ParseElse
    \/ ParseEndIf
    \/ ParseOpenWhile
    \/ ParseEndWhile
    \/ ParseOpenMainLoop
    \/ ParseEndMainLoop
    \/ ParseFinish

(***************************************************************************)
(* SpecText                                                                *)
(***************************************************************************)

\* Lines of source text a program may hold.
MaxTextLines == 4
\* Deepest indentation of a line, in steps of four spaces.
MaxIndent == 2

\* The first word of a stripped line, character by character.
W_x        == <<"x">>
W_returned == <<"r", "e", "t", "u", "r", "n", "e", "d">>
W_return   == <<"r", "e", "t", "u", "r", "n">>
W_break    == <<"b", "r", "e", "a", "k">>
W_if       == <<"i", "f">>
W_while    == <<"w", "h", "i", "l", "e">>
W_for      == <<"f", "o", "r">>
W_def      == <<"d", "e", "f">>
W_hash     == <<"#">>
W_target   == <<"t", "a", "r", "g", "e", "t">>

\* The stripped lines of the source programs, as the first word and what
\* follows it:
\*   x = 1            returned = 1        returned += 1     x, y = 1, 2
\*   break            return              return 1
\*   if 1 > 0:        while 1 > 0:        while True:
\*   for i in range(3):                   for i in range(n):
\*   def f(a):
TextForms ==
    {[word |-> W_x, rest |-> "assign"], [word |-> W_returned, rest |-> "assign"],
     [word |-> W_returned, rest |-> "aug"], [word |-> W_x, rest |-> "tuple"],
     [word |-> W_break, rest |-> "none"],
     [word |-> W_return, rest |-> "none"], [word |-> W_return, rest |-> "expr"],
     [word |-> W_if, rest |-> "header"], [word |-> W_while, rest |-> "header"],
     [word |-> W_while, rest |-> "true"],
     [word |-> W_for, rest |-> "range_lit"], [word |-> W_for, rest |-> "range_name"],
     [word |-> W_def, rest |-> "header"]}

TextLine(indent, form) == [indent |-> indent, word |-> form.word, rest |-> form.rest]
\* A line `# ...` and an empty line.
CommentLine(indent) == [indent |-> indent, word |-> W_hash, rest |-> "none"]
BlankLine == [indent |-> 0, word |-> <<>>, rest |-> "none"]

\* str.startswith
StartsWith(s, p) == Len(s) >= Len(p) /\ SubSeq(s, 1, Len(p)) = p

\* not line.strip()
IsBlank(l) == l.word = <<>> /\ l.rest = "none"
\* line.startswith('#')
IsComment(l) == StartsWith(l.word, W_hash)
\* line == "break"
IsBreak(l) == l.word = W_break /\ l.rest = "none"
\* line.startswith("return")
StartsWithReturn(l) == StartsWith(l.word, W_return)
\* ast.parse(line) is a Return statement
IsReturnStmt(l) == l.word = W_return /\ l.rest \in {"none", "expr"}
\* _handle_assignment_ast returns nodes: the line parses as an Assign or
\* AugAssign to plain names.
IsAssignment(l) ==
    /\ l.rest \in {"assign", "aug", "tuple"}
    /\ l.word \notin {W_return, W_break, W_if, W_while, W_for, W_def}
\* RE_IF, RE_WHILE, RE_WHILE_TRUE, RE_FOR_RANGE, RE_DEF
MatchIf(l) == l.word = W_if /\ l.rest = "header"
MatchWhile(l) == l.word = W_while /\ l.rest \in {"header", "true"}
MatchWhileTrue(l) == l.word = W_while /\ l.rest = "true"
MatchForRange(l) == l.word = W_for /\ l.rest = "range_lit"
MatchDef(l) == l.word = W_def /\ l.rest = "header"
\* RE_TARGET_CALL: target("A") or target("B"); the port is group 1.
TargetPorts == {"A", "B"}
MatchTarget(l) == l.word = W_target /\ l.rest \in TargetPorts

\* _collect_block: the index after the last line of the block that starts
\* after `start`.
RECURSIVE CollectBlockEnd(_, _, _)
CollectBlockEnd(lines, i, base) ==
    IF i > Len(lines) THEN i
    ELSE IF IsBlank(lines[i]) THEN CollectBlockEnd(lines, i + 1, base)
    ELSE IF lines[i].indent <= base THEN i
    ELSE CollectBlockEnd(lines, i + 1, base)

CollectBlock(lines, start) ==
    LET next == CollectBlockEnd(lines, start + 1, lines[start].indent)
    IN  [block |-> SubSeq(lines, start + 1, next - 1), next |-> next]

\* AST nodes of the text-level parser: the kind of statement and, for a
\* control construct, its body.
TextNode(t, kids) == [t |-> t, kids |-> kids]
NoLine == [indent |-> 0, word |-> <<>>, rest |-> "none"]

\* fn_meta = {"return_types": [], "has_void": False}
FnMetaInit == [has_void_key |-> TRUE, has_void |-> FALSE, return_types |-> {}]
\* fn_meta.setdefault("has_void", True)
SetDefaultHasVoid(meta) ==
    IF meta.has_void_key THEN meta
    ELSE [meta EXCEPT !.has_void_key = TRUE, !.has_void = TRUE]

\* _merge_return_types(types, has_void)
MergeReturnTypesVoid(types, has_void) ==
    IF has_void
    THEN IF types # {} THEN "error" ELSE "void"
    ELSE IF "String" \in types /\ Cardinality(types) > 1 THEN "error"
    ELSE MergeReturnTypes(types)

\* What _parse_simple_lines has built so far: the error raised (with the line
\* that raised it), the body, fn_meta of the function being parsed, and which
\* recogniser took each line.
PslStart(meta, log) ==
    [err |-> "", at |-> NoLine, nodes |-> <<>>, meta |-> meta, log |-> log,
     target |-> "none"]

\* The checks on a `break` line without the one for the main loop.
BreakErrorOutsideOnly(loop_depth, main_loop) ==
    IF loop_depth <= 0 THEN "'break' outside loop is not supported" ELSE ""

\* The error a `break` line raises, "" when it is accepted.
BreakError(loop_depth, main_loop) ==
    IF loop_depth <= 0 THEN "'break' outside loop is not supported"
    ELSE IF main_loop /\ loop_depth = 1 THEN "cannot break out of the main loop()"
    ELSE ""

\* _parse_simple_lines from line i of the snippet on.
RECURSIVE ParseSimpleLines(_, _, _, _, _, _)
ParseSimpleLines(snippet, i, acc, in_fn, loop_depth, main_loop) ==
    IF acc.err # "" \/ i > Len(snippet) THEN acc
    ELSE
    LET l == snippet[i]
        logged(by) == [acc EXCEPT !.log = @ \cup {[word |-> l.word, rest |-> l.rest, by |-> by]}]
        fail(by, msg) == [logged(by) EXCEPT !.err = msg, !.at = l]
        emit(by, t) == [logged(by) EXCEPT !.nodes = Append(@, TextNode(t, <<>>))]
        blk == CollectBlock(snippet, i)
        block(by, t, depth) ==
            LET sub == ParseSimpleLines(blk.block, 1,
                                        PslStart(acc.meta, logged(by).log),
                                        in_fn, depth, main_loop)
            \* the block is parsed with a copy of ctx (dict(ctx)): a
            \* target_port set inside stays in the copy
            IN  IF sub.err # "" THEN sub
                ELSE [sub EXCEPT !.nodes = Append(acc.nodes, TextNode(t, sub.nodes)),
                                 !.target = acc.target]
    IN
    IF IsBlank(l) \/ IsComment(l)
    THEN ParseSimpleLines(snippet, i + 1, acc, in_fn, loop_depth, main_loop)
    ELSE IF IsBreak(l)
    THEN IF BreakError(loop_depth, main_loop) # ""
         THEN fail("break", BreakError(loop_depth, main_loop))
         ELSE ParseSimpleLines(snippet, i + 1, emit("break", "break"),
                               in_fn, loop_depth, main_loop)
    ELSE IF StartsWithReturn(l)
    THEN IF ~in_fn THEN fail("return", "'return' outside of a function is not supported")
         ELSE IF ~IsReturnStmt(l) THEN fail("return", "invalid return statement")
         ELSE IF l.rest = "none"
         THEN ParseSimpleLines(snippet, i + 1,
                  [emit("return", "return") EXCEPT !.meta = SetDefaultHasVoid(@)],
                  in_fn, loop_depth, main_loop)
         ELSE ParseSimpleLines(snippet, i + 1,
                  [emit("return", "return_expr") EXCEPT
                      !.meta.return_types = @ \cup {"int"}],
                  in_fn, loop_depth, main_loop)
    ELSE IF MatchTarget(l)
    THEN ParseSimpleLines(snippet, i + 1, [logged("target") EXCEPT !.target = l.rest],
                          in_fn, loop_depth, main_loop)
    ELSE IF IsAssignment(l)
    THEN ParseSimpleLines(snippet, i + 1, emit("assignment", "assign"),
                          in_fn, loop_depth, main_loop)
    ELSE IF MatchIf(l)
    THEN ParseSimpleLines(snippet, blk.next, block("if", "if", loop_depth),
                          in_fn, loop_depth, main_loop)
    ELSE IF MatchWhile(l)
    THEN ParseSimpleLines(snippet, blk.next, block("while", "while", loop_depth + 1),
                          in_fn, loop_depth, main_loop)
    ELSE IF MatchForRange(l)
    THEN ParseSimpleLines(snippet, blk.next, block("for", "for", loop_depth + 1),
                          in_fn, loop_depth, main_loop)
    \* unknown -> ignore
    ELSE ParseSimpleLines(snippet, i + 1, logged("ignored"),
                          in_fn, loop_depth, main_loop)

\* The Program parse() returns, or the error it raises.
NoProgram ==
    [err |-> "", at |-> NoLine, setup |-> <<>>, loop |-> <<>>, fns |-> <<>>, log |-> {},
     target |-> "none"]

\* parse(): the loop over the lines of the text, from line i on.
RECURSIVE ParseText(_, _, _)
ParseText(lines, i, acc) ==
    IF acc.err # "" \/ i > Len(lines) THEN acc
    ELSE
    LET l == lines[i]
        blk == CollectBlock(lines, i)
        run(snippet, in_fn, loop_depth, main_loop) ==
            ParseSimpleLines(snippet, 1, PslStart(FnMetaInit, acc.log),
                             in_fn, loop_depth, main_loop)
        failed(r) == [acc EXCEPT !.err = r.err, !.at = r.at, !.log = r.log]
        \* _parse_simple_lines is handed ctx itself: what it stores in
        \* ctx["target_port"] is seen by parse()
        port(r) == IF r.target # "none" THEN r.target ELSE acc.target
        to_setup(r) == IF r.err # "" THEN failed(r)
                       ELSE [acc EXCEPT !.setup = @ \o r.nodes, !.log = r.log,
                                        !.target = port(r)]
    IN
    IF IsBlank(l) \/ IsComment(l) THEN ParseText(lines, i + 1, acc)
    ELSE IF MatchTarget(l)
    THEN ParseText(lines, i + 1, [acc EXCEPT !.target = l.rest])
    ELSE IF l.indent = 0 /\ MatchWhileTrue(l)
    THEN LET r == run(blk.block, FALSE, 1, TRUE)
         IN  ParseText(lines, blk.next,
                       IF r.err # "" THEN failed(r)
                       ELSE [acc EXCEPT !.loop = @ \o r.nodes, !.log = r.log,
                                        !.target = port(r)])
    ELSE IF l.indent = 0 /\ MatchWhile(l)
    THEN ParseText(lines, blk.next, to_setup(run(<<l>> \o blk.block, FALSE, 0, FALSE)))
    ELSE IF l.indent = 0 /\ MatchDef(l)
    THEN LET r == run(blk.block, TRUE, 0, FALSE)
             merged == MergeReturnTypesVoid(r.meta.return_types, r.meta.has_void)
         IN  ParseText(lines, blk.next,
                       IF r.err # "" THEN failed(r)
                       ELSE IF merged = "error"
                       THEN [acc EXCEPT !.err = "cannot mix value and bare return statements",
                                        !.at = l, !.log = r.log]
                       ELSE [acc EXCEPT !.fns = <<[ret |-> merged, body |-> r.nodes]>>,
                                        !.log = r.log])
    ELSE IF l.indent = 0 /\ MatchForRange(l)
    THEN ParseText(lines, blk.next, to_setup(run(<<l>> \o blk.block, FALSE, 0, FALSE)))
    ELSE IF MatchIf(l)
    THEN ParseText(lines, blk.next, to_setup(run(<<l>> \o blk.block, FALSE, 0, FALSE)))
    ELSE ParseText(lines, i + 1, to_setup(run(<<l>>, FALSE, 0, FALSE)))

\* The Program that parse() returns: setup_body, loop_body and functions, or
\* the error raised instead.
ProgramOf(r) ==
    IF r.err # "" THEN [err |-> r.err, setup |-> <<>>, loop |-> <<>>, fns |-> <<>>,
                        target_port |-> "none"]
    ELSE [err |-> "", setup |-> r.setup, loop |-> r.loop, fns |-> r.fns,
          target_port |-> r.target]

\* A line that opens an indented block.
IsHeader(l) == l.rest \in {"header", "true", "range_lit", "range_name"}

\* The source text grows by one line, indented as Python requires: a block
\* header is followed by a deeper line, any other line by one no deeper.
TextAddLine(form, indent) ==
    /\ text_phase = "edit"
    /\ Len(text_src) < MaxTextLines
    /\ IF text_src = <<>> THEN indent = 0
       ELSE LET prev == text_src[Len(text_src)]
            IN  IF IsHeader(prev) THEN indent = prev.indent + 1
                ELSE indent <= prev.indent
    /\ form.word = W_def => indent = 0
    /\ text_src' = Append(text_src, TextLine(indent, form))
    /\ UNCHANGED <<text_alt, text_phase, text_result, text_alt_result>>
    /\ UNCHANGED TextOthers

\* A second text is the first with one comment line added before line p.
TextInsertComment(p, indent) ==
    /\ text_phase = "edit"
    /\ text_src # <<>>
    /\ ~IsHeader(text_src[Len(text_src)])
    /\ text_alt' = SubSeq(text_src, 1, p - 1) \o <<CommentLine(indent)>>
                     \o SubSeq(text_src, p, Len(text_src))
    /\ text_phase' = "commented"
    /\ UNCHANGED <<text_src, text_result, text_alt_result>>
    /\ UNCHANGED TextOthers

\* parse() runs on both texts.
TextParse ==
    /\ text_phase = "commented"
    /\ text_result' = ParseText(text_src, 1, NoProgram)
    /\ text_alt_result' = ParseText(text_alt, 1, NoProgram)
    /\ text_phase' = "parsed"
    /\ UNCHANGED <<text_src, text_alt>>
    /\ UNCHANGED TextOthers

TextInit ==
    /\ text_src = <<>>
    /\ text_alt = <<>>
    /\ text_phase = "edit"
    /\ text_result = NoProgram
    /\ text_alt_result = NoProgram

TextNext ==
    \/ \E form \in TextForms, indent \in 0..MaxIndent : TextAddLine(form, indent)
    \/ \E p \in 1..(Len(text_src) + 1), indent \in 0..MaxIndent : TextInsertComment(p, indent)
    \/ TextParse

(***************************************************************************)
(* SpecTarget                                                              *)
(***************************************************************************)

\* Lines of a source text with target(...) directives.
MaxTargetLines == 4

\* The stripped lines of these texts:
\*   x = 1     if 1 > 0:     while 1 > 0:     while True:
\*   for i in range(3):      def f(a):        return 1
\*   target("A")             target("B")
TargetForms ==
    {[word |-> W_x, rest |-> "assign"],
     [word |-> W_if, rest |-> "header"], [word |-> W_while, rest |-> "header"],
     [word |-> W_while, rest |-> "true"], [word |-> W_for, rest |-> "range_lit"],
     [word |-> W_def, rest |-> "header"], [word |-> W_return, rest |-> "expr"],
     [word |-> W_target, rest |-> "A"], [word |-> W_target, rest |-> "B"]}

\* The text grows by one line, indented as Python requires.
TargetAddLine(form, indent) ==
    /\ ~target_parsed
    /\ Len(target_src) < MaxTargetLines
    /\ IF target_src = <<>> THEN indent = 0
       ELSE LET prev == target_src[Len(target_src)]
            IN  IF IsHeader(prev) THEN indent = prev.indent + 1
                ELSE indent <= prev.indent
    /\ form.word = W_def => indent = 0
    /\ target_src' = Append(target_src, TextLine(indent, form))
    /\ UNCHANGED <<target_parsed, target_result, TargetOthers>>

\* parse() runs on the text.
TargetParse ==
    /\ ~target_parsed
    /\ target_src # <<>>
    /\ ~IsHeader(target_src[Len(target_src)])
    /\ target_result' = ProgramOf(ParseText(target_src, 1, NoProgram))
    /\ target_parsed' = TRUE
    /\ UNCHANGED <<target_src, TargetOthers>>

TargetInit ==
    /\ target_src = <<>>
    /\ target_parsed = FALSE
    /\ target_result = ProgramOf(NoProgram)

TargetNext ==
    \/ \E form \in TargetForms, indent \in 0..MaxIndent : TargetAddLine(form, indent)
    \/ TargetParse

(***************************************************************************)
(* SpecResolve                                                             *)
(***************************************************************************)

\* Nested resolutions the interpreter's call stack holds before Python raises
\* RecursionError.
MaxFrames == 5

\* The function bodies, each over the single parameter a:
\*   callee "none"             return a
\*   callee c, wrap FALSE      y = c(a)   ; return y
\*   callee c, wrap TRUE       y = c([a]) ; return y
NoBody == [callee |-> "undefined", wrap |-> FALSE]
ResBodies ==
    {[callee |-> "none", wrap |-> FALSE]}
    \cup {[callee |-> c, wrap |-> w] : c \in FnNames, w \in BOOLEAN}

\* The argument types of the top-level calls: int and list[int].
ResCallLevels == {0, 1}

\* A parameter type is int wrapped in `level` lists: int, list[int],
\* list[list[int]], ...
ResFrame(name, level, forced) ==
    [name |-> name, level |-> level, forced |-> forced, pc |-> "body", idx |-> 1]

\* The frames below the top one, and the stack with its top frame replaced.
ResPop == SubSeq(res_stack, 1, Len(res_stack) - 1)
ResTop == res_stack[Len(res_stack)]
ResWithTop(f) == [res_stack EXCEPT ![Len(res_stack)] = f]

\* _ensure_function_variant(name, <<level>>) called while the frames `stack`
\* are in progress: the definition is cached, or the function has no source
\* yet, or the pair is being resolved already (short-circuit), or the
\* function is parsed again under the forced signature.  A parse deeper than
\* the interpreter allows raises RecursionError, which unwinds every frame.
ResEnsure(stack, name, level) ==
    IF <<name, level>> \in res_defs \/ res_src[name] = NoBody
    THEN /\ res_stack' = stack
         /\ UNCHANGED <<res_refreshing, res_short>>
         /\ res_status' = IF stack = <<>> THEN "idle" ELSE "running"
    ELSE IF <<name, level>> \in res_refreshing
    THEN /\ res_stack' = stack
         /\ res_short' = TRUE
         /\ res_status' = "running"
         /\ UNCHANGED res_refreshing
    ELSE IF Len(stack) >= MaxFrames
    THEN /\ res_stack' = <<>>
         /\ res_refreshing' = {}
         /\ res_status' = "RecursionError"
         /\ UNCHANGED res_short
    ELSE /\ res_stack' = Append(stack, ResFrame(name, level, TRUE))
         /\ res_refreshing' = res_refreshing \cup {<<name, level>>}
         /\ res_status' = "running"
         /\ UNCHANGED res_short

\* _infer_expr_type on a call: the signature is recorded once.
ResRecord(calls, name, level) ==
    IF \E i \in 1..Len(calls[name]) : calls[name][i] = level THEN calls
    ELSE [calls EXCEPT ![name] = Append(@, level)]

\* def name(a): <body> at top level: _parse_function without a forced
\* signature starts on the body.
ResDefine(name, body) ==
    /\ res_status = "idle"
    /\ res_src[name] = NoBody
    /\ res_src' = [res_src EXCEPT ![name] = body]
    /\ res_stack' = <<ResFrame(name, 0, FALSE)>>
    /\ res_status' = "running"
    /\ res_lines' = Append(res_lines, [op |-> "def", name |-> name, body |-> body, level |-> 0])
    /\ UNCHANGED <<res_refreshing, res_defs, res_calls, res_short, ResolveOthers>>

\* z = name(1) or z = name([1]) at top level, for a function whose variant
\* for that argument type is not cached yet.
ResCall(name, level) ==
    /\ res_status = "idle"
    /\ <<name, level>> \notin res_defs
    /\ res_src[name] # NoBody
    /\ res_calls' = ResRecord(res_calls, name, level)
    /\ ResEnsure(<<>>, name, level)
    /\ res_lines' = Append(res_lines, [op |-> "call", name |-> name, body |-> NoBody, level |-> level])
    /\ UNCHANGED <<res_src, res_defs, ResolveOthers>>

\* The body line of the function being parsed: a call asks for the callee's
\* variant under the argument's type.
ResBodyLine ==
    /\ res_status = "running"
    /\ ResTop.pc = "body"
    /\ LET body == res_src[ResTop.name]
           arg == IF body.wrap THEN ResTop.level + 1 ELSE ResTop.level
           after == ResWithTop([ResTop EXCEPT !.pc = "finish"])
       IN  IF body.callee = "none"
           THEN /\ res_stack' = after
                /\ UNCHANGED <<res_refreshing, res_calls, res_short, res_status>>
           ELSE /\ res_calls' = ResRecord(res_calls, body.callee, arg)
                /\ ResEnsure(after, body.callee, arg)
    /\ UNCHANGED <<res_src, res_defs, res_lines, ResolveOthers>>

\* The end of _parse_function: the definition is cached under the final
\* signature; a forced parse returns to _ensure_function_variant, which
\* drops the pair from the set in progress.
ResFinish ==
    /\ res_status = "running"
    /\ ResTop.pc = "finish"
    /\ res_defs' = res_defs \cup {<<ResTop.name, ResTop.level>>}
    /\ IF ResTop.forced
       THEN /\ res_stack' = ResPop
            /\ res_refreshing' = res_refreshing \ {<<ResTop.name, ResTop.level>>}
            /\ res_status' = IF ResPop = <<>> THEN "idle" ELSE "running"
       ELSE /\ res_stack' = ResWithTop([ResTop EXCEPT !.pc = "pending"])
            /\ UNCHANGED <<res_refreshing, res_status>>
    /\ UNCHANGED <<res_src, res_calls, res_short, res_lines, ResolveOthers>>

\* The loop over the recorded call signatures that ends an unforced parse.
ResPending ==
    /\ res_status = "running"
    /\ ResTop.pc = "pending"
    /\ LET calls == res_calls[ResTop.name]
       IN  IF ResTop.idx > Len(calls)
           THEN /\ res_stack' = ResPop
                /\ res_status' = IF ResPop = <<>> THEN "idle" ELSE "running"
                /\ UNCHANGED <<res_refreshing, res_short>>
           ELSE LET after == ResWithTop([ResTop EXCEPT !.idx = @ + 1])
                IN  IF calls[ResTop.idx] # ResTop.level
                    THEN ResEnsure(after, ResTop.name, calls[ResTop.idx])
                    ELSE /\ res_stack' = after
                         /\ UNCHANGED <<res_refreshing, res_short, res_status>>
    /\ UNCHANGED <<res_src, res_defs, res_calls, res_lines, ResolveOthers>>

ResolveInit ==
    /\ res_src = [n \in FnNames |-> NoBody]
    /\ res_stack = <<>>
    /\ res_refreshing = {}
    /\ res_defs = {}
    /\ res_calls = [n \in FnNames |-> <<>>]
    /\ res_short = FALSE
    /\ res_status = "idle"
    /\ res_lines = <<>>

ResolveNext ==
    \/ \E name \in FnNames, body \in ResBodies : ResDefine(name, body)
    \/ \E name \in FnNames, level \in ResCallLevels : ResCall(name, level)
    \/ ResBodyLine
    \/ ResFinish
    \/ ResPending

(***************************************************************************)
(* SpecSonar                                                               *)
(***************************************************************************)

\* const unsigned int __redu_max_attempts = 3U;
MaxAttempts == 3
\* const unsigned long __redu_min_interval_ms = 60UL;
MinIntervalMs == 60
\* return 400.0f;  in the units of SonarDistance
DefaultDistance == 400 * 20000
\* static float __redu_last_distance = 400.0f;
NoDistance == 0 - 1

\* Calls of the helper in one run, and the last clock value at which a call
\* may start.
MaxSonarCalls == 2
MaxClockMs == 240

\* pulseIn(echo, HIGH, 30000UL): the echo duration in microseconds, 0 on
\* timeout; and the milliseconds one attempt's pulseIn may take.
EchoDurations == {0, 580, 1160}
PulseMs == {0, 30}

\* (static_cast<float>(duration) * 0.0343f) / 2.0f, in units of 1/20000 cm.
SonarDistance(duration) == duration * 343

\* The wait before a trigger: nothing on the first trigger ever
\* (last == 0UL) or when the interval has passed.
SonarWait(now, last) ==
    IF last # 0 /\ now - last < MinIntervalMs THEN MinIntervalMs - (now - last) ELSE 0

\* The value returned after the last attempt failed, ignoring the cache.
SonarFallbackDefault(has, last) == DefaultDistance

\* if (has_distance) return last_distance;  return 400.0f;
SonarFallback(has, last) == IF has THEN last ELSE DefaultDistance

\* __redu_ultrasonic_measure_<name>() is called.
SonarCall ==
    /\ sonar_pc = "idle"
    /\ sonar_calls < MaxSonarCalls
    /\ sonar_clock <= MaxClockMs
    /\ sonar_pc' = "attempt"
    /\ sonar_attempt' = 0
    /\ sonar_echoes' = <<>>
    /\ sonar_calls' = sonar_calls + 1
    /\ sonar_result' = NoDistance
    /\ \E dt \in PulseMs : sonar_clock' = sonar_clock + dt
    /\ UNCHANGED <<sonar_last_trigger_ms, sonar_last_distance, sonar_has_distance,
                   sonar_good, SonarOthers>>

\* One iteration of the for loop: wait out the interval, trigger, read the
\* echo; a positive duration is converted, cached and returned.
SonarAttempt(duration, dt) ==
    /\ sonar_pc = "attempt"
    /\ sonar_attempt < MaxAttempts
    /\ LET now == sonar_clock + SonarWait(sonar_clock, sonar_last_trigger_ms)
           after == now + dt
       IN  /\ sonar_clock' = after
           /\ sonar_last_trigger_ms' = after
    /\ sonar_echoes' = Append(sonar_echoes, duration)
    /\ IF duration > 0
       THEN /\ sonar_last_distance' = SonarDistance(duration)
            /\ sonar_has_distance' = TRUE
            /\ sonar_result' = SonarDistance(duration)
            /\ sonar_good' = SonarDistance(duration)
            /\ sonar_pc' = "idle"
            /\ UNCHANGED sonar_attempt
       ELSE /\ sonar_attempt' = sonar_attempt + 1
            /\ UNCHANGED <<sonar_last_distance, sonar_has_distance, sonar_result,
                           sonar_good, sonar_pc>>
    /\ UNCHANGED <<sonar_calls, SonarOthers>>

\* The loop ran out of attempts.
SonarGiveUp ==
    /\ sonar_pc = "attempt"
    /\ ~(sonar_attempt < MaxAttempts)
    /\ sonar_result' = SonarFallback(sonar_has_distance, sonar_last_distance)
    /\ sonar_pc' = "idle"
    /\ UNCHANGED <<sonar_last_trigger_ms, sonar_last_distance, sonar_has_distance,
                   sonar_attempt, sonar_echoes, sonar_calls, sonar_clock, sonar_good,
                   SonarOthers>>

SonarInit ==
    /\ sonar_last_trigger_ms = 0
    /\ sonar_last_distance = DefaultDistance
    /\ sonar_has_distance = FALSE
    /\ sonar_attempt = 0
    /\ sonar_pc = "idle"
    /\ sonar_clock = 0
    /\ sonar_result = NoDistance
    /\ sonar_echoes = <<>>
    /\ sonar_calls = 0
    /\ sonar_good = NoDistance

SonarNext ==
    \/ SonarCall
    \/ \E duration \in EchoDurations, dt \in PulseMs : SonarAttempt(duration, dt)
    \/ SonarGiveUp

(***************************************************************************)
(* SpecEmit                                                                *)
(***************************************************************************)

\* Nodes in setup_body and loop_body together.
MaxEmitNodes == 3

LedNames == {"led", "led2"}
LedPins == {5, 6}

\* The nodes of a Program handed to emit(): LedDecl(name, pin), LedOn(name),
\* and an IfStatement with one branch holding one declaration.
LedDeclNodes == {[kind |-> "LedDecl", name |-> n, pin |-> p, body |-> <<>>] :
                    n \in LedNames, p \in LedPins}
LedOnNodes == {[kind |-> "LedOn", name |-> n, pin |-> 0, body |-> <<>>] : n \in LedNames}
IfNodes == {[kind |-> "IfStatement", name |-> "", pin |-> 0, body |-> <<d>>] :
               d \in LedDeclNodes}
EmitNodes == LedDeclNodes \cup LedOnNodes \cup IfNodes

\* A line of setup(): pinMode(<pin>, OUTPUT); or any other statement.  `led`
\* is not part of the text: it names the declaration the line was emitted for.
PinModeLine(node) == [text |-> "pinMode", pin |-> node.pin, mode |-> "OUTPUT", led |-> node.name]
OtherLine(node) == [text |-> node.kind, pin |-> 0, mode |-> "", led |-> node.name]

\* emit(), the pass over loop_body: every LedDecl directly in the loop body
\* appends a pinMode line to setup_lines.
RECURSIVE LoopPassLines(_, _)
LoopPassLines(nodes, i) ==
    IF i > Len(nodes) THEN <<>>
    ELSE (IF nodes[i].kind = "LedDecl" THEN <<PinModeLine(nodes[i])>> ELSE <<>>)
         \o LoopPassLines(nodes, i + 1)

\* _emit_block(nodes, ..., in_setup=True, emitted_pin_modes=emitted): a
\* LedDecl emits pinMode once per (name, pin) key; the blocks of an if are
\* emitted with the same set.
RECURSIVE EmitBlock(_, _, _)
EmitBlock(nodes, i, acc) ==
    IF i > Len(nodes) THEN acc
    ELSE LET node == nodes[i]
             key == <<node.name, node.pin>>
         IN  IF node.kind = "LedDecl"
             THEN EmitBlock(nodes, i + 1,
                    IF key \notin acc.emitted
                    THEN [lines |-> Append(acc.lines, PinModeLine(node)),
                          emitted |-> acc.emitted \cup {key}]
                    ELSE acc)
             ELSE IF node.kind = "IfStatement"
             THEN EmitBlock(nodes, i + 1,
                    LET sub == EmitBlock(node.body, 1, [lines |-> <<>>, emitted |-> acc.emitted])
                    IN  [lines |-> acc.lines \o <<OtherLine(node)>> \o sub.lines,
                         emitted |-> sub.emitted])
             ELSE EmitBlock(nodes, i + 1, [acc EXCEPT !.lines = Append(@, OtherLine(node))])

\* The Program gets one more node in its setup body.
EmitAddSetupNode(node) ==
    /\ ~emit_done
    /\ Len(emit_setup_body) + Len(emit_loop_body) < MaxEmitNodes
    /\ emit_setup_body' = Append(emit_setup_body, node)
    /\ UNCHANGED <<emit_loop_body, emit_setup_lines, emit_done, EmitOthers>>

\* The Program gets one more node in its loop body.
EmitAddLoopNode(node) ==
    /\ ~emit_done
    /\ Len(emit_setup_body) + Len(emit_loop_body) < MaxEmitNodes
    /\ emit_loop_body' = Append(emit_loop_body, node)
    /\ UNCHANGED <<emit_setup_body, emit_setup_lines, emit_done, EmitOthers>>

\* emit(): setup_lines after the pass over loop_body and the emission of
\* setup_body.
Emit ==
    /\ ~emit_done
    /\ emit_setup_lines' =
          LoopPassLines(emit_loop_body, 1)
          \o EmitBlock(emit_setup_body, 1, [lines |-> <<>>, emitted |-> {}]).lines
    /\ emit_done' = TRUE
    /\ UNCHANGED <<emit_setup_body, emit_loop_body, EmitOthers>>

EmitInit ==
    /\ emit_setup_body = <<>>
    /\ emit_loop_body = <<>>
    /\ emit_setup_lines = <<>>
    /\ emit_done = FALSE

EmitNext ==
    \/ \E node \in EmitNodes : EmitAddSetupNode(node)
    \/ \E node \in EmitNodes : EmitAddLoopNode(node)
    \/ Emit

(***************************************************************************)
(* SpecFold                                                                *)
(***************************************************************************)

\* Operators applied in one expression.
MaxOps == 2

\* The integer literals of the expressions; a negative one is written -n.
FoldLiterals == {0, 2, 0 - 2, 7, 200}
FoldOps == {"+", "-", "*", "/", "//", "%"}

\* Division rounding toward minus infinity (Python) and toward zero (C++).
FloorDiv(a, b) == IF b > 0 THEN a \div b ELSE (0 - a) \div (0 - b)
TruncDiv(a, b) ==
    LET abs(x) == IF x < 0 THEN 0 - x ELSE x
        q == abs(a) \div abs(b)
    IN  IF (a < 0) = (b < 0) THEN q ELSE 0 - q

\* A Python number: num / den with den a power of two, and whether it is a
\* float.  A failed evaluation (ZeroDivisionError) has ok = FALSE.
PyInt(v) == [ok |-> TRUE, num |-> v, den |-> 1, float |-> FALSE]
PyError == [ok |-> FALSE, num |-> 0, den |-> 1, float |-> FALSE]

\* _apply_bin: operator.add, sub, mul, truediv, floordiv, mod on a number
\* and an integer literal.
ApplyBin(o, a, b) ==
    IF ~a.ok THEN PyError
    ELSE IF o = "+" THEN [a EXCEPT !.num = @ + b * a.den]
    ELSE IF o = "-" THEN [a EXCEPT !.num = @ - b * a.den]
    ELSE IF o = "*" THEN [a EXCEPT !.num = @ * b]
    ELSE IF b = 0 THEN PyError
    ELSE IF o = "/"
    THEN [ok |-> TRUE, num |-> IF b < 0 THEN 0 - a.num ELSE a.num,
          den |-> a.den * (IF b < 0 THEN 0 - b ELSE b), float |-> TRUE]
    ELSE IF o = "//"
    THEN [a EXCEPT !.num = FloorDiv(a.num, a.den * b) * a.den]
    ELSE [a EXCEPT !.num = @ - b * a.den * FloorDiv(a.num, a.den * b)]

\* _eval_const on the first k steps of an expression.
RECURSIVE EvalConstArith(_, _)
EvalConstArith(expr, k) ==
    IF k = 1 THEN PyInt(expr[1].arg)
    ELSE LET a == EvalConstArith(expr, k - 1)
         IN  IF expr[k].op = "neg" THEN [a EXCEPT !.num = 0 - @]
             ELSE ApplyBin(expr[k].op, a, expr[k].arg)

\* int(value)
PyToInt(v) == TruncDiv(v.num, v.den)

\* The value of a C++ int expression; ub is set by signed overflow and by
\* division by zero, after which the value means nothing.
CppInt(v) == [ub |-> FALSE, val |-> v]
CppChecked(a, v) == IF a.ub \/ v > IntMax \/ v < IntMin THEN [ub |-> TRUE, val |-> 0]
                    ELSE [ub |-> FALSE, val |-> v]

\* _BIN: "/" and "//" both become the C++ operator /, "%" stays %.
CppBin(o, a, b) ==
    IF o = "+" THEN CppChecked(a, a.val + b)
    ELSE IF o = "-" THEN CppChecked(a, a.val - b)
    ELSE IF o = "*" THEN CppChecked(a, a.val * b)
    ELSE IF b = 0 THEN [ub |-> TRUE, val |-> 0]
    ELSE IF o \in {"/", "//"} THEN CppChecked(a, TruncDiv(a.val, b))
    ELSE CppChecked(a, a.val - b * TruncDiv(a.val, b))

\* What the expression emitted by _to_c_expr computes at runtime.
RECURSIVE CppEval(_, _)
CppEval(expr, k) ==
    IF k = 1 THEN CppInt(expr[1].arg)
    ELSE LET a == CppEval(expr, k - 1)
         IN  IF expr[k].op = "neg" THEN CppChecked(a, 0 - a.val)
             ELSE CppBin(expr[k].op, a, expr[k].arg)

\* The expression starts as a literal.
FoldLiteral(v) ==
    /\ fold_expr = <<>>
    /\ fold_expr' = <<[op |-> "lit", arg |-> v]>>
    /\ UNCHANGED <<fold_sleep, FoldOthers>>

\* (expr) o v, with a power of two as the divisor of a true division.
FoldBinOp(o, v) ==
    /\ fold_expr # <<>>
    /\ fold_sleep.kind = "none"
    /\ Len(fold_expr) <= MaxOps
    /\ o = "/" => v \in {2, 0 - 2, 0}
    /\ fold_expr' = Append(fold_expr, [op |-> o, arg |-> v])
    /\ UNCHANGED <<fold_sleep, FoldOthers>>

\* -(expr)
FoldNegate ==
    /\ fold_expr # <<>>
    /\ fold_sleep.kind = "none"
    /\ Len(fold_expr) <= MaxOps
    /\ fold_expr' = Append(fold_expr, [op |-> "neg", arg |-> 0])
    /\ UNCHANGED <<fold_sleep, FoldOthers>>

\* Sleep(<expr>): Sleep(ms=int(_eval_const(expr))) when the evaluation
\* succeeds, Sleep(ms=_to_c_expr(expr)) otherwise.
FoldSleep ==
    /\ fold_expr # <<>>
    /\ fold_sleep.kind = "none"
    /\ LET v == EvalConstArith(fold_expr, Len(fold_expr))
       IN  fold_sleep' = IF v.ok THEN [kind |-> "literal", ms |-> PyToInt(v)]
                         ELSE [kind |-> "expr", ms |-> 0]
    /\ UNCHANGED <<fold_expr, FoldOthers>>

FoldInit ==
    /\ fold_expr = <<>>
    /\ fold_sleep = [kind |-> "none", ms |-> 0]

FoldNext ==
    \/ \E v \in FoldLiterals : FoldLiteral(v)
    \/ \E o \in FoldOps, v \in FoldLiterals : FoldBinOp(o, v)
    \/ FoldNegate
    \/ FoldSleep

(***************************************************************************)
(* SpecVariant                                                             *)
(***************************************************************************)

\* Top-level lines of a program around the function
\*   def f(a):
\*       t = a
\*       return t
MaxVariantLines == 4

\* Requested parameter types, from the calls f(1), f(2.5) and f("s").
VariantTypes == {"int", "float", "String"}
\* Names assigned at top level by `t = 5` and `u = 5`.
VariantNames == {"t", "u"}
\* The name a call line assigns: xi = f(1), xf = f(2.5), xs = f("s").
CallTarget(type) == IF type = "int" THEN "xi" ELSE IF type = "float" THEN "xf" ELSE "xs"

NoVariant == [stmt |-> "none", ctype |-> "none"]

\* _parse_function(name, params_src, block, ctx, forced_signature): the body
\* is parsed in a child context whose var_declared starts as a copy of the
\* caller's; `t = a` becomes a VarDecl when t is not in it and a VarAssign
\* when it is.
ParseVariantBody(declared, type) ==
    [stmt |-> IF "t" \in declared THEN "VarAssign" ELSE "VarDecl", ctype |-> type]

\* _ensure_function_variant: a cached definition is returned as it is,
\* otherwise the source is parsed again with the signature forced.
EnsureVariantBody(defs, declared, type) ==
    IF defs[type] # NoVariant THEN defs
    ELSE [defs EXCEPT ![type] = ParseVariantBody(declared, type)]

\* The variants requested before the definition, parsed after the primary
\* one.
RECURSIVE EnsurePending(_, _, _)
EnsurePending(defs, declared, pending) ==
    IF pending = {} THEN defs
    ELSE LET type == CHOOSE p \in pending : TRUE
         IN  EnsurePending(EnsureVariantBody(defs, declared, type), declared,
                           pending \ {type})

\* def f(a): ...   The primary signature is (int); the signatures recorded
\* by earlier calls are parsed right after it.
VariantDefine ==
    /\ ~variant_defined
    /\ Len(variant_src) < MaxVariantLines
    /\ variant_defined' = TRUE
    /\ variant_defs' =
          EnsurePending([variant_defs EXCEPT !["int"] = ParseVariantBody(variant_declared, "int")],
                        variant_declared, variant_pending \ {"int"})
    /\ variant_src' = Append(variant_src, "def")
    /\ UNCHANGED <<variant_declared, variant_pending, VariantOthers>>

\* t = 5 or u = 5 at top level.
VariantAssign(name) ==
    /\ Len(variant_src) < MaxVariantLines
    /\ variant_declared' = variant_declared \cup {name}
    /\ variant_src' = Append(variant_src, name)
    /\ UNCHANGED <<variant_defined, variant_defs, variant_pending, VariantOthers>>

\* xi = f(1), xf = f(2.5) or xs = f("s") at top level: the call's signature
\* is recorded, and after the definition the variant is ensured in the
\* context of the call.
VariantCall(type) ==
    /\ Len(variant_src) < MaxVariantLines
    /\ variant_pending' = variant_pending \cup {type}
    /\ variant_defs' = IF variant_defined
                       THEN EnsureVariantBody(variant_defs, variant_declared, type)
                       ELSE variant_defs
    /\ variant_declared' = variant_declared \cup {CallTarget(type)}
    /\ variant_src' = Append(variant_src, type)
    /\ UNCHANGED <<variant_defined, VariantOthers>>

VariantInit ==
    /\ variant_src = <<>>
    /\ variant_declared = {}
    /\ variant_defined = FALSE
    /\ variant_defs = [type \in VariantTypes |-> NoVariant]
    /\ variant_pending = {}

VariantNext ==
    \/ VariantDefine
    \/ \E name \in VariantNames : VariantAssign(name)
    \/ \E type \in VariantTypes : VariantCall(type)

(***************************************************************************)
(* SpecInfer                                                               *)
(***************************************************************************)

\* Return statements whose expression is inferred in one function body.
MaxInfers == 2

InferNames == {"p", "q"}
InferTypes == {"int", "float", "String"}

\* Expression nodes: a Name, the constants "s" and 1, and BinOp(left, op, right).
NameNode(id) == [k |-> "Name", id |-> id, kids |-> <<>>]
StrNode == [k |-> "Constant", id |-> "str", kids |-> <<>>]
IntNode == [k |-> "Constant", id |-> "int", kids |-> <<>>]
BinOpNode(left, o, right) == [k |-> "BinOp", id |-> o, kids |-> <<left, right>>]

InferLeaves == {NameNode(n) : n \in InferNames} \cup {StrNode, IntNode}
InferInner == {BinOpNode(l, "+", r) : l \in InferLeaves, r \in InferLeaves}
\* The expressions of the return statements: p + "s", "s" * q, (p + 1) + q, ...
InferExprs ==
    {BinOpNode(l, o, r) : l \in InferLeaves, o \in {"+", "*"}, r \in InferLeaves}
    \cup {BinOpNode(l, o, r) : l \in InferInner, o \in {"+", "*"}, r \in InferLeaves}
    \cup {BinOpNode(l, o, r) : l \in InferLeaves, o \in {"+", "*"}, r \in InferInner}

\* No name of var_types is retyped.
KeepTypes(types, node, label) == types

\* if isinstance(node.<side>, ast.Name) and <side> != "String":
\*     var_types[node.<side>.id] = "String"
RetypeName(types, node, label) ==
    IF node.k = "Name" /\ label # "String" THEN [types EXCEPT ![node.id] = "String"]
    ELSE types

\* _infer_expr_type(node, var_types, ...): the inferred label and var_types
\* as the call leaves it.
RECURSIVE InferType(_, _)
InferType(node, types) ==
    IF node.k = "Constant" THEN [label |-> IF node.id = "str" THEN "String" ELSE "int",
                                 types |-> types]
    ELSE IF node.k = "Name" THEN [label |-> types[node.id], types |-> types]
    ELSE LET left == InferType(node.kids[1], types)
             right == InferType(node.kids[2], left.types)
         IN  IF "String" \in {left.label, right.label}
             THEN [label |-> "String",
                   types |-> RetypeName(RetypeName(right.types, node.kids[1], left.label),
                                        node.kids[2], right.label)]
             ELSE IF "float" \in {left.label, right.label}
             THEN [label |-> "float", types |-> right.types]
             ELSE [label |-> "int", types |-> right.types]

\* return <expr> in a function body: the type of the expression is inferred
\* against the body's var_types and recorded as a return type.
InferReturn(expr) ==
    /\ infer_count < MaxInfers
    /\ LET r == InferType(expr, infer_types)
       IN  /\ infer_types' = r.types
           /\ infer_label' = r.label
    /\ infer_before' = infer_types
    /\ infer_expr' = expr
    /\ infer_count' = infer_count + 1
    /\ UNCHANGED InferOthers

\* The body's var_types holds the parameters with their requested types.
InferInit ==
    /\ infer_types \in [InferNames -> InferTypes]
    /\ infer_before = infer_types
    /\ infer_expr = IntNode
    /\ infer_label = "int"
    /\ infer_count = 0

\* The same with int parameters only: the start of the other specifications.
InferStart ==
    /\ infer_types = [n \in InferNames |-> "int"]
    /\ infer_before = infer_types
    /\ infer_expr = IntNode
    /\ infer_label = "int"
    /\ infer_count = 0

InferNext == \E expr \in InferExprs : InferReturn(expr)

(***************************************************************************)
(* SpecBranch                                                              *)
(***************************************************************************)

\* Lines after `a = [1]` and `x = 1`, Python list objects created by the
\* parser, and the longest list.
MaxBranchLines == 5
MaxListObjects == 3
MaxBranchLen == 3

\* The values of `x = 1` and `x = 2`, and the lengths of `a = [1]` and
\* `a = [1, 1]`.
BranchInts == {1, 2}
BranchLiteralLens == {1, 2}

\* What a context sees of the program: the list object vars["a"] refers to
\* and the constant vars["x"].
BranchVars(obj, x) == [a |-> obj, x |-> x]

\* child["vars"] = dict(base_ctx_vars): a new dict with the same values; the
\* list object is the same object.
CopyVars(base) == BranchVars(base.a, base.x)

\* A context with its own copy of the list: what a branch would start from
\* if nothing of another branch could reach it.
Isolated(len, tracked, x) == [len |-> len, tracked |-> tracked, x |-> x]

BranchLineUnchanged == UNCHANGED <<branch_base, branch_kind, branch_header>>

\* One more line of the program, in the block being parsed.
BranchLine(kind, arg) ==
    /\ ~branch_err
    /\ Len(branch_src) < MaxBranchLines
    /\ branch_src' = Append(branch_src, [line |-> kind, arg |-> arg,
                                         indent |-> IF branch_kind = "top" THEN 0 ELSE 1])
    /\ branch_stmts' = branch_stmts + 1

\* x = v
BranchAssignInt(v) ==
    /\ BranchLine("x", v)
    /\ branch_vars' = [branch_vars EXCEPT !.x = v]
    /\ branch_own' = [branch_own EXCEPT !.x = v]
    /\ BranchLineUnchanged
    /\ UNCHANGED <<branch_objects, branch_list_info, branch_err, branch_folds, BranchOthers>>

\* a.append(1): list_info["a"]["length"] grows by one and the list object
\* bound to a is appended to in place.
BranchAppend ==
    /\ BranchLine("append", 1)
    /\ branch_objects[branch_vars.a] < MaxBranchLen
    /\ branch_list_info < MaxBranchLen
    /\ branch_list_info' = branch_list_info + 1
    /\ branch_objects' = [branch_objects EXCEPT ![branch_vars.a] = @ + 1]
    /\ branch_own' = [branch_own EXCEPT !.len = @ + 1, !.tracked = @ + 1]
    /\ BranchLineUnchanged
    /\ UNCHANGED <<branch_vars, branch_err, branch_folds, BranchOthers>>

\* a = [1] or a = [1, 1] on the declared list: a length other than the
\* tracked one is an error; otherwise a is bound to a new list object and the
\* tracked length is set.
BranchAssignList(n) ==
    /\ BranchLine("list", n)
    /\ IF branch_list_info # n
       THEN /\ branch_err' = TRUE
            /\ UNCHANGED <<branch_vars, branch_objects, branch_list_info>>
       ELSE /\ UNCHANGED branch_err
            /\ \E obj \in 1..MaxListObjects :
                  /\ branch_objects[obj] = 0
                  /\ \A o \in 1..(obj - 1) : branch_objects[o] # 0
                  /\ branch_objects' = [branch_objects EXCEPT ![obj] = n]
                  /\ branch_vars' = [branch_vars EXCEPT !.a = obj]
            /\ branch_list_info' = n
    /\ branch_own' = [branch_own EXCEPT !.len = n, !.tracked = n]
    /\ BranchLineUnchanged
    /\ UNCHANGED <<branch_folds, BranchOthers>>

\* n = len(a): folded to the length of the list object bound to a.
BranchLen ==
    /\ BranchLine("len", 0)
    /\ branch_folds' = Append(branch_folds, branch_objects[branch_vars.a])
    /\ BranchLineUnchanged
    /\ UNCHANGED <<branch_vars, branch_objects, branch_list_info, branch_own, branch_err,
                   BranchOthers>>

\* if x > 0:  The first branch is parsed in _branch_ctx(), built from the
\* values the enclosing context holds at the header.
BranchOpenIf ==
    /\ ~branch_err
    /\ branch_kind = "top"
    /\ Len(branch_src) < MaxBranchLines - 1
    /\ branch_src' = Append(branch_src, [line |-> "if", arg |-> 0, indent |-> 0])
    /\ branch_base' = branch_vars
    /\ branch_vars' = CopyVars(branch_vars)
    /\ branch_header' = Isolated(branch_objects[branch_vars.a], branch_list_info, branch_vars.x)
    /\ branch_own' = Isolated(branch_objects[branch_vars.a], branch_list_info, branch_vars.x)
    /\ branch_kind' = "if"
    /\ branch_stmts' = 0
    /\ UNCHANGED <<branch_objects, branch_list_info, branch_err, branch_folds, BranchOthers>>

\* elif x > 1: or else:  The next branch is parsed in a new _branch_ctx().
BranchNextBranch(kind) ==
    /\ ~branch_err
    /\ branch_kind \in {"if", "elif"}
    /\ branch_stmts > 0
    /\ Len(branch_src) < MaxBranchLines - 1
    /\ branch_src' = Append(branch_src, [line |-> kind, arg |-> 0, indent |-> 0])
    /\ branch_vars' = CopyVars(branch_base)
    /\ branch_own' = branch_header
    /\ branch_kind' = kind
    /\ branch_stmts' = 0
    /\ UNCHANGED <<branch_base, branch_header, branch_objects, branch_list_info, branch_err,
                   branch_folds, BranchOthers>>

\* The if statement ends: parsing goes on in the enclosing context.
BranchEndIf ==
    /\ ~branch_err
    /\ branch_kind # "top"
    /\ branch_stmts > 0
    /\ branch_vars' = branch_base
    /\ branch_kind' = "top"
    /\ branch_own' = Isolated(branch_objects[branch_base.a], branch_list_info, branch_base.x)
    /\ UNCHANGED <<branch_base, branch_header, branch_src, branch_stmts, branch_objects,
                   branch_list_info, branch_err, branch_folds, BranchOthers>>

\* a = [1] and x = 1 have been parsed at top level.
BranchInit ==
    /\ branch_src = <<>>
    /\ branch_kind = "top"
    /\ branch_stmts = 0
    /\ branch_objects = [o \in 1..MaxListObjects |-> IF o = 1 THEN 1 ELSE 0]
    /\ branch_list_info = 1
    /\ branch_vars = BranchVars(1, 1)
    /\ branch_base = BranchVars(1, 1)
    /\ branch_header = Isolated(1, 1, 1)
    /\ branch_own = Isolated(1, 1, 1)
    /\ branch_err = FALSE
    /\ branch_folds = <<>>

BranchNext ==
    \/ \E v \in BranchInts : BranchAssignInt(v)
    \/ BranchAppend
    \/ \E n \in BranchLiteralLens : BranchAssignList(n)
    \/ BranchLen
    \/ BranchOpenIf
    \/ \E kind \in {"elif", "else"} : BranchNextBranch(kind)
    \/ BranchEndIf

(***************************************************************************)
(* Specifications                                                          *)
(***************************************************************************)

\* Each specification starts every other state machine in its initial state
\* and never moves it.
InitLed == LedInit /\ ListInit /\ FnInit /\ ParseInit /\ TextInit /\ ResolveInit /\ SonarInit /\ TargetInit /\ EmitInit /\ FoldInit /\ VariantInit /\ InferStart /\ BranchInit
SpecLed == InitLed /\ [][LedNext]_vars

InitList == ListInit /\ LedInit /\ FnInit /\ ParseInit /\ TextInit /\ ResolveInit /\ SonarInit /\ TargetInit /\ EmitInit /\ FoldInit /\ VariantInit /\ InferStart /\ BranchInit
SpecList == InitList /\ [][ListNext]_vars

InitFn == FnInit /\ LedInit /\ ListInit /\ ParseInit /\ TextInit /\ ResolveInit /\ SonarInit /\ TargetInit /\ EmitInit /\ FoldInit /\ VariantInit /\ InferStart /\ BranchInit
SpecFn == InitFn /\ [][FnNext]_vars

InitParse == ParseInit /\ LedInit /\ ListInit /\ FnInit /\ TextInit /\ ResolveInit /\ SonarInit /\ TargetInit /\ EmitInit /\ FoldInit /\ VariantInit /\ InferStart /\ BranchInit
SpecParse == InitParse /\ [][ParseNext]_vars

InitText == TextInit /\ LedInit /\ ListInit /\ FnInit /\ ParseInit /\ ResolveInit /\ SonarInit /\ TargetInit /\ EmitInit /\ FoldInit /\ VariantInit /\ InferStart /\ BranchInit
SpecText == InitText /\ [][TextNext]_vars

InitResolve == ResolveInit /\ LedInit /\ ListInit /\ FnInit /\ ParseInit /\ TextInit /\ SonarInit /\ TargetInit /\ EmitInit /\ FoldInit /\ VariantInit /\ InferStart /\ BranchInit
SpecResolve == InitResolve /\ [][ResolveNext]_vars

InitSonar == SonarInit /\ LedInit /\ ListInit /\ FnInit /\ ParseInit /\ TextInit /\ ResolveInit /\ TargetInit /\ EmitInit /\ FoldInit /\ VariantInit /\ InferStart /\ BranchInit
SpecSonar == InitSonar /\ [][SonarNext]_vars

InitTarget == TargetInit /\ LedInit /\ ListInit /\ FnInit /\ ParseInit /\ TextInit /\ ResolveInit /\ SonarInit /\ EmitInit /\ FoldInit /\ VariantInit /\ InferStart /\ BranchInit
SpecTarget == InitTarget /\ [][TargetNext]_vars

InitEmit == EmitInit /\ LedInit /\ ListInit /\ FnInit /\ ParseInit /\ TextInit /\ ResolveInit /\ SonarInit /\ TargetInit /\ FoldInit /\ VariantInit /\ InferStart /\ BranchInit
SpecEmit == InitEmit /\ [][EmitNext]_vars

InitFold == FoldInit /\ LedInit /\ ListInit /\ FnInit /\ ParseInit /\ TextInit /\ ResolveInit /\ SonarInit /\ TargetInit /\ EmitInit /\ VariantInit /\ InferStart /\ BranchInit
SpecFold == InitFold /\ [][FoldNext]_vars

InitVariant == VariantInit /\ LedInit /\ ListInit /\ FnInit /\ ParseInit /\ TextInit /\ ResolveInit /\ SonarInit /\ TargetInit /\ EmitInit /\ FoldInit /\ InferStart /\ BranchInit
SpecVariant == InitVariant /\ [][VariantNext]_vars

InitInfer == InferInit /\ LedInit /\ ListInit /\ FnInit /\ ParseInit /\ TextInit /\ ResolveInit /\ SonarInit /\ TargetInit /\ EmitInit /\ FoldInit /\ VariantInit /\ BranchInit
SpecInfer == InitInfer /\ [][InferNext]_vars

InitBranch == BranchInit /\ LedInit /\ ListInit /\ FnInit /\ ParseInit /\ TextInit /\ ResolveInit /\ SonarInit /\ TargetInit /\ EmitInit /\ FoldInit /\ VariantInit /\ InferStart
SpecBranch == InitBranch /\ [][BranchNext]_vars

(***************************************************************************)
(* Properties                                                              *)
(***************************************************************************)

\* C2: after each complete LED action the brightness variable lies in
\* [0,255] and the on/off flag equals (brightness > 0).
LedStateConsistent ==
    led_pc = "idle" =>
        /\ led_brightness >= 0
        /\ led_brightness <= MaxBrightness
        /\ led_state = (led_brightness > 0)

\* A toggle has completed and switched the LED off (for instance after a
\* set_brightness(128) or a fade left it on).
LedToggledOff ==
    /\ led_pc = "idle"
    /\ led_last = "toggle"
    /\ led_state = FALSE
    /\ led_brightness = 0

\* C3: after `b = a` for a list a, appending to or removing from b leaves a
\* unchanged: every read of a still observes exactly a's own elements.
ListCopyIndependent ==
    \A d \in list_declared :
        (/\ list_last[1] \in {"append", "remove"}
         /\ list_last[2] = d
         /\ list_src[d] \in list_declared)
        => ListValues(lists[list_src[d]], heap_live, heap_data)
               = {list_model[list_src[d]]}

\* The calls the final Program holds: those of the top-level lines and those
\* inside the bodies of the function definitions it keeps.
ProgramCalls ==
    {<<c.name, c.sig>> : c \in FnTopCalls}
    \cup UNION {DictGet(fn_tables.defs[d[1]], d[2]).calls : d \in fn_selected}

\* C6: every call of a user function in the final program, wherever it
\* stands (assignment, condition, argument, bare expression), has a
\* definition in Program.functions whose signature is the resolved signature
\* of the call's argument types.
CallsHaveDefinition ==
    fn_done =>
        \A c \in ProgramCalls :
            fn_tables.sources[c[1]] # NoShape
            => <<c[1], ResolveSignatureAlias(fn_tables, c[1], c[2])>> \in fn_selected

\* C7: every definition Program.functions keeps is the resolved
\* specialisation of some call in the final program, or the single default
\* definition of a function the program never calls.
RetainedAreUsed ==
    fn_done =>
        \A d \in fn_selected :
            \/ \E c \in ProgramCalls :
                  /\ c[1] = d[1]
                  /\ ResolveSignatureAlias(fn_tables, c[1], c[2]) = d[2]
            \/ /\ ~(\E c \in ProgramCalls : c[1] = d[1])
               /\ d[2] = fn_tables.primary[d[1]]

\* Names an emitted expression reads.
ExprNames(e) == IF e.k \in {"len", "aug"} THEN {e.n} ELSE {}

\* The names a node list assigns or reads at a point where no declaration of
\* them is visible: `visible` holds the names declared so far in the
\* enclosing blocks, and a declaration inside a block ends with the block.
RECURSIVE Undeclared(_, _)
RECURSIVE UndeclaredBranches(_, _)
Undeclared(nodes, visible) ==
    IF nodes = <<>> THEN {}
    ELSE LET node == Head(nodes)
             here == IF node.t \in {"decl", "tmp"} THEN ExprNames(node.expr) \ visible
                     ELSE IF node.t = "assign"
                     THEN ({node.name} \cup ExprNames(node.expr)) \ visible
                     ELSE UndeclaredBranches(node.kids, visible)
                          \cup Undeclared(node.els, visible)
             visible1 == IF node.t = "decl" THEN visible \cup {node.name} ELSE visible
         IN  here \cup Undeclared(Tail(nodes), visible1)
UndeclaredBranches(branches, visible) ==
    IF branches = <<>> THEN {}
    ELSE Undeclared(Head(branches), visible) \cup UndeclaredBranches(Tail(branches), visible)

GlobalNames == {global_decls[i].name : i \in 1..Len(global_decls)}

\* C1: once a source program in which every name is assigned before it is
\* read has been translated, every variable that loop() assigns or reads has
\* a declaration that is visible at that point: a global one, or a local one
\* earlier in an enclosing block of loop().
LoopDeclaredBeforeUse ==
    (parse_done /\ parse_reads_ok) => Undeclared(loop_body, GlobalNames) = {}

\* C4: when every branch of an if/elif/else (the else included) first assigns
\* a name that was undeclared before it, one declaration of the name is in
\* force before the conditional and none is left inside it.
IfPromotesOnce ==
    parse_last.kind = "if" =>
        \A n \in parse_last.every :
            /\ parse_last.decls_before[n] = 1
            /\ parse_last.decls_inside[n] = 0

\* An if/elif/else has just ended whose three branches all first assign one
\* name.
IfPromotedFromThreeBranches ==
    /\ parse_last.kind = "if"
    /\ parse_last.branches = 3
    /\ parse_last.every # {}

\* C5: the declaration hoisted out of an if/elif/else has the widest of the
\* types the branches that declared the name inferred for it.
HoistedTypeIsMerged ==
    parse_last.kind = "if" =>
        \A n \in SeqRange(parse_last.hoisted) :
            parse_last.ctypes[n] = CppType(parse_last.merged[n])

\* C8: two translations of the same source text emit the hoisted
\* declarations in the same order.
SameOutputTwice == parse_done => parse_run1 = parse_run2

\* C9: the declarations one construct hoists are in the order in which the
\* names first occur in the text of the construct.
HoistedInTextOrder ==
    parse_last.kind # "none" => parse_last.hoisted = parse_last.text

\* C10: a len(name) call on a name that earlier lines only ever left strings
\* in is replaced by a literal only when that literal is the length of every
\* one of those strings.
FoldsUseCurrentValue ==
    \A f \in parse_folds : 0 \notin f.reach => f.reach = {f.lit}

\* C12: a name whose first assignment is a line at the top level of the
\* startup code (single-target or tuple) gets a global declaration: no
\* statement of setup() itself declares a user variable locally.
TopLevelNamesAreGlobal ==
    parse_reads_ok =>
        \A i \in 1..Len(setup_body) :
            ~(setup_body[i].t = "decl" /\ ~setup_body[i].glob)

\* A line of the text that Python reads as a plain, tuple or augmented
\* assignment to simple names.
AssignmentLines == {"assign", "aug", "tuple"}

\* C11: every line that is a plain, tuple or augmented assignment to simple
\* names is taken by the assignment handler, whatever the target names are:
\* no other recogniser takes it first.
AssignmentHandledFirst ==
    \A e \in text_result.log : e.rest \in AssignmentLines => e.by = "assignment"

\* The lines of the one function body of a text that is a single definition.
IsOneFunction(src) ==
    /\ Len(src) >= 2
    /\ MatchDef(src[1])
    /\ \A i \in 2..Len(src) : src[i].indent >= 1

\* C13: a function whose body holds both a bare `return` and a
\* `return <expr>` is rejected with an error and yields no function
\* definition.
MixedReturnsRejected ==
    (/\ text_phase = "parsed"
     /\ IsOneFunction(text_src)
     /\ \E i \in 2..Len(text_src) : text_src[i].word = W_return /\ text_src[i].rest = "none"
     /\ \E i \in 2..Len(text_src) : text_src[i].word = W_return /\ text_src[i].rest = "expr")
        => (text_result.err # "" /\ text_result.fns = <<>>)

\* C18: a text with a `for <name> in range(<bound>):` line whose bound is not
\* an integer literal is rejected with an error.
NonLiteralRangeRejected ==
    (/\ text_phase = "parsed"
     /\ \E i \in 1..Len(text_src) :
            text_src[i].word = W_for /\ text_src[i].rest = "range_name")
        => text_result.err # ""

\* The loops of the text around line b, by indentation.
EnclosingLoops(src, b) ==
    {j \in 1..(b - 1) :
        /\ src[j].word \in {W_while, W_for}
        /\ \A k \in (j + 1)..b : src[k].indent > src[j].indent}
BreakLines(src) == {i \in 1..Len(src) : IsBreak(src[i])}
\* The only loop around line b is the top-level `while True:`.
OnlyMainLoop(src, b) ==
    \E j \in 1..Len(src) :
        /\ EnclosingLoops(src, b) = {j}
        /\ src[j].indent = 0
        /\ src[j].rest = "true"

\* How many loops of the Program are around each of its break statements.
RECURSIVE BreakDepths(_, _)
BreakDepths(nodes, d) ==
    IF nodes = <<>> THEN {}
    ELSE LET n == Head(nodes)
             here == IF n.t = "break" THEN {d}
                     ELSE IF n.t \in {"while", "for"} THEN BreakDepths(n.kids, d + 1)
                     ELSE BreakDepths(n.kids, d)
         IN  here \cup BreakDepths(Tail(nodes), d)
ProgramBreakDepths(r) ==
    BreakDepths(r.setup, 0) \cup BreakDepths(r.loop, 1)
        \cup UNION {BreakDepths(r.fns[i].body, 0) : i \in 1..Len(r.fns)}

\* A parsed text of the language with a single `break` line, which is the
\* only line that can be rejected.
OneBreakParsed ==
    /\ text_phase = "parsed"
    /\ Cardinality(BreakLines(text_src)) = 1
    /\ \A i \in 1..Len(text_src) : text_src[i].rest # "range_name"
    /\ text_result.err \in {"", "'break' outside loop is not supported",
                            "cannot break out of the main loop()"}

CommentLineIgnored ==
    text_phase = "parsed" => ProgramOf(text_result) = ProgramOf(text_alt_result)

\* C17: a list literal assigned to an already-declared list variable, whose
\* length differs from the length tracked for the variable, is rejected with
\* an error, whichever assignment form is used.
ListLengthChangeRejected ==
    (list_reassign.form # "none" /\ list_reassign.new # list_reassign.tracked)
        => list_reassign.rejected

\* The definitions of function n among the source lines.
FnDefsOf(n) == {i \in FnDefLines : fn_src[i].name = n}

\* C14: a parameter that carries a type annotation has the annotated type in
\* every specialization of its function that the Program holds, whatever
\* argument types the calls use.
AnnotatedTypeKept ==
    fn_done =>
        \A n \in FnNames :
            (Cardinality(FnDefsOf(n)) = 1 /\ fn_tables.sources[n].ann # "none")
                => \A sel \in fn_selected :
                       sel[1] = n => sel[2] = <<fn_tables.sources[n].ann>>

\* C16: when a re-parse under the requested types R resolved to other final
\* types F, lookups under R and under F reach the one definition cached under
\* F, and no definition is cached under R.
AliasedLookupsConverge ==
    \A n \in FnNames :
        \A i \in 1..Len(fn_tables.aliases[n]) :
            LET R == fn_tables.aliases[n][i][1]
                F == fn_tables.aliases[n][i][2]
            IN  R # F =>
                    /\ ResolveSignatureAlias(fn_tables, n, R) = F
                    /\ ResolveSignatureAlias(fn_tables, n, F) = F
                    /\ DictHas(fn_tables.defs[n], F)
                    /\ ~DictHas(fn_tables.defs[n], R)

\* C15: resolving the variants of a function that calls itself, directly or
\* through another function, terminates: the nested re-parses never exhaust
\* the call stack.
ResolutionTerminates == res_status # "RecursionError"

\* C23: after set_brightness(v) the brightness variable holds
\* min(255, max(0, v)) and the flag says whether that value is positive.
SetBrightnessClamps ==
    led_last = "set_brightness" =>
        /\ led_brightness = ClampHigh(ClampLow(led_arg))
        /\ led_state = (ClampHigh(ClampLow(led_arg)) > 0)

\* C29: while a fade_in ramp runs brightness never decreases, while a
\* fade_out ramp runs it never increases, and it stays within 0..255 until
\* the ramp ends on its bound.
FadeNeverMovesAway ==
    [][/\ led_pc = "fade_in" => (led_brightness' >= led_brightness /\ led_brightness' <= MaxBrightness)
       /\ led_pc = "fade_out" => (led_brightness' <= led_brightness /\ led_brightness' >= 0)]_vars

\* The echoes of the current call before the last one all timed out.
EarlierEchoesFailed ==
    \A i \in 1..(Len(sonar_echoes) - 1) : sonar_echoes[i] = 0

\* C30: a call triggers at most 3 times; it returns the distance of the first
\* attempt with a positive echo, and after 3 failed attempts the most recent
\* successful distance, or 400.0 when there has been none.
SonarRetryAndFallback ==
    /\ Len(sonar_echoes) <= 3
    /\ EarlierEchoesFailed
    /\ (sonar_pc = "idle" /\ sonar_calls > 0) =>
           IF \E i \in 1..Len(sonar_echoes) : sonar_echoes[i] > 0
           THEN sonar_result = SonarDistance(sonar_echoes[Len(sonar_echoes)])
           ELSE /\ Len(sonar_echoes) = 3
                /\ sonar_result = IF sonar_good # NoDistance THEN sonar_good
                                  ELSE 400 * 20000

\* Witness of C30: a call whose three attempts all failed returned the
\* distance measured by an earlier call.
SonarReturnedCachedDistance ==
    /\ sonar_pc = "idle"
    /\ Len(sonar_echoes) = 3
    /\ \A i \in 1..3 : sonar_echoes[i] = 0
    /\ sonar_good # NoDistance
    /\ sonar_result = sonar_good

\* C27: the length the parser tracks for a declared list equals the number of
\* elements the runtime list holds, after any declarations, literal
\* assignments, appends and removes.
TrackedLengthIsRuntimeSize ==
    ~heap_fault => \A n \in list_declared : list_info[n] = lists[n].size

\* The port of the last target(...) line of a text, "none" without one.
RECURSIVE LastTargetLine(_, _)
LastTargetLine(lines, i) ==
    IF i = 0 THEN "none"
    ELSE IF lines[i].word = W_target THEN lines[i].rest
    ELSE LastTargetLine(lines, i - 1)

\* C21: the target_port of the parsed Program is the argument of the last
\* target(...) line of the text, wherever that line is.
TargetPortIsLastDirective ==
    (target_parsed /\ target_result.err = "") =>
        target_result.target_port = LastTargetLine(target_src, Len(target_src))

\* The LED declarations of a node list, those inside if blocks included.
RECURSIVE DeclsIn(_, _)
DeclsIn(nodes, i) ==
    IF i > Len(nodes) THEN {}
    ELSE (IF nodes[i].kind = "LedDecl" THEN {nodes[i]} ELSE DeclsIn(nodes[i].body, 1))
         \cup DeclsIn(nodes, i + 1)

\* C22: for every declared (LED name, pin) the generated setup() holds
\* exactly one pinMode line, however often and wherever it is declared.
OnePinModePerLed ==
    emit_done =>
        \A d \in DeclsIn(emit_setup_body, 1) \cup DeclsIn(emit_loop_body, 1) :
            Cardinality({k \in 1..Len(emit_setup_lines) :
                            emit_setup_lines[k] = PinModeLine(d)}) = 1

\* C25: when Sleep(<expr>) of a name-free integer expression is folded to a
\* literal, the literal is the value the translated expression computes at
\* runtime (whenever that expression has a defined value).
FoldedIsRuntimeValue ==
    fold_sleep.kind = "literal" =>
        LET c == CppEval(fold_expr, Len(fold_expr))
        IN  ~c.ub => fold_sleep.ms = c.val

\* C26: every specialization of f declares the name first assigned in its
\* body, t, in the same way, whatever was declared where it was requested.
VariantBodiesAgree ==
    \A t1, t2 \in VariantTypes :
        (variant_defs[t1] # NoVariant /\ variant_defs[t2] # NoVariant) =>
            variant_defs[t1].stmt = variant_defs[t2].stmt

\* An expression with a String operand anywhere is a String.
RECURSIVE TypedString(_, _)
TypedString(e, types) ==
    IF e.k = "Name" THEN types[e.id] = "String"
    ELSE IF e.k = "Constant" THEN e.id = "str"
    ELSE TypedString(e.kids[1], types) \/ TypedString(e.kids[2], types)

\* The expression holds a BinOp of which one operand is the name n and the
\* other is a String by the types given.
RECURSIVE NameBesideString(_, _, _)
NameBesideString(node, n, types) ==
    /\ node.k = "BinOp"
    /\ \/ node.kids[1] = NameNode(n) /\ TypedString(node.kids[2], types)
       \/ node.kids[2] = NameNode(n) /\ TypedString(node.kids[1], types)
       \/ NameBesideString(node.kids[1], n, types)
       \/ NameBesideString(node.kids[2], n, types)

\* C28: inferring a binary expression with a String operand beside a
\* variable of another recorded type records String for that variable, the
\* record stays, and no other variable's recorded type changes.
StringWidensOnlyItsOperand ==
    infer_count > 0 =>
        /\ \A n \in InferNames :
              \/ infer_types[n] = infer_before[n]
              \/ /\ infer_types[n] = "String"
                 /\ NameBesideString(infer_expr, n, infer_types)
        /\ \A n \in InferNames :
              NameBesideString(infer_expr, n, infer_before) => infer_types[n] = "String"
        /\ \A n \in InferNames : infer_before[n] = "String" => infer_types[n] = "String"

\* Witness of C28: p + "s" was inferred with p recorded as int and q as
\* float; p is now String and q still float.
IntOperandWidened ==
    /\ infer_count > 0
    /\ infer_expr = BinOpNode(NameNode("p"), "+", StrNode)
    /\ infer_before = [n \in InferNames |-> IF n = "p" THEN "int" ELSE "float"]
    /\ infer_types = [n \in InferNames |-> IF n = "p" THEN "String" ELSE "float"]

\* C24: while a branch of an if statement is parsed, the constant of x, the
\* constant list of a and the tracked length of a are what they were at the
\* header, changed only by the lines of this branch.
BranchSeesOnlyItself ==
    (branch_kind # "top" /\ ~branch_err) =>
        /\ branch_vars.x = branch_own.x
        /\ branch_objects[branch_vars.a] = branch_own.len
        /\ branch_list_info = branch_own.tracked

====
